---- MODULE Spec2Model ----
(***************************************************************************)
(* The recommendation engine of the gym nutrition tracker:                 *)
(* src/src/ml/data_processor.py (loader) and                               *)
(* src/src/ml/recommendation_engine.py (construction and the two queries). *)
(*                                                                         *)
(* Conventions.  A food name is a sequence of one-character strings, so    *)
(* that lower-casing and substring search are computed.  Macro amounts are *)
(* integers (grams per 100 g).  A macro ratio is an exact fraction         *)
(* <<num, den>>; a feature vector is <<a, b, c, d>> standing for           *)
(* (a/d, b/d, c/d) with d > 0, kept in lowest terms.  Positions in the     *)
(* table are 1-based here (pandas position i is position i+1).             *)
(*                                                                         *)
(* datafile is what stands at the path given to the constructor; engine is *)
(* what load_engine of src/app.py holds afterwards, "RecommendationEngine" *)
(* or "None"; error is the exception construction raised, or NoError.      *)
(***************************************************************************)
EXTENDS Integers, Sequences, FiniteSets, TLC

VARIABLES datafile, engine, error, data, X_features, kmeans_model, nn_model, call,
          twin, loader, api, session

vars == <<datafile, engine, error, data, X_features, kmeans_model, nn_model, call,
          twin, loader, api, session>>

\* the parts of the program a specification does not exercise stand idle in it:
\* twin, a second engine; loader, the header probe step by step; api, the
\* nutrition service client; session, the dashboard's session state
Idle == [pc |-> "idle"]

(***************************************************************************)
(* Bounds of the model.                                                    *)
(***************************************************************************)
\* longest food_name a caller passes to get_similar_foods
MaxStrLen == 2
\* largest n_recommendations a caller passes
MaxRecs == 8
\* the n_recommendations callers pass
RecCounts == {1, 2, 3, MaxRecs}
\* resolution of the fixed-point square roots and scores: 1/Precision
Precision == 64

(***************************************************************************)
(* Program constants.                                                      *)
(***************************************************************************)
n_clusters == 8
MIN_MACRO_DENSITY == 10

(***************************************************************************)
(* Strings.                                                                *)
(***************************************************************************)
Alphabet == {"a", "b", "A", " "}

\* str.lower() of one character
LowerChar(c) == CASE c = "A" -> "a" [] c = "B" -> "b" [] OTHER -> c

\* str.lower()
Lower(s) == [i \in 1..Len(s) |-> LowerChar(s[i])]

\* pandas str.contains(sub, regex=False): sub occurs in s as a contiguous run
Contains(s, sub) ==
    \E i \in 0..(Len(s) - Len(sub)) :
        \A j \in 1..Len(sub) : s[i + j] = sub[j]

\* str.split(): the whitespace-separated words of s, in order
RECURSIVE SplitFrom(_, _, _)
SplitFrom(s, i, word) ==
    IF i > Len(s)
    THEN IF word = <<>> THEN <<>> ELSE <<word>>
    ELSE IF s[i] = " "
         THEN (IF word = <<>> THEN <<>> ELSE <<word>>) \o SplitFrom(s, i + 1, <<>>)
         ELSE SplitFrom(s, i + 1, Append(word, s[i]))

Split(s) == SplitFrom(s, 1, <<>>)

\* every string of at most MaxStrLen characters
RECURSIVE StringsUpTo(_)
StringsUpTo(k) ==
    IF k = 0 THEN {<<>>}
    ELSE LET shorter == StringsUpTo(k - 1)
         IN  shorter \cup {Append(s, c) : s \in shorter, c \in Alphabet}

QueryNames == StringsUpTo(MaxStrLen)

(***************************************************************************)
(* Arithmetic on exact ratios.                                             *)
(***************************************************************************)
Abs(x) == IF x < 0 THEN -x ELSE x

RECURSIVE GCD(_, _)
GCD(a, b) == IF b = 0 THEN a ELSE GCD(b, a % b)

\* the vector (a/d, b/d, c/d) in lowest terms
Normalize(v) ==
    LET g == GCD(GCD(GCD(Abs(v[1]), Abs(v[2])), Abs(v[3])), v[4])
    IN  <<v[1] \div g, v[2] \div g, v[3] \div g, v[4] \div g>>

\* numerator of the squared Euclidean distance; its denominator is (u[4]*v[4])^2
SqNum(u, v) ==
    LET d1 == u[1] * v[4] - v[1] * u[4]
        d2 == u[2] * v[4] - v[2] * u[4]
        d3 == u[3] * v[4] - v[3] * u[4]
    IN  d1 * d1 + d2 * d2 + d3 * d3

\* -1, 0, 1 as |q - a| is below, equal to, above |q - b|
CmpDist(q, a, b) ==
    LET l == SqNum(q, a) * (b[4] * b[4])
        r == SqNum(q, b) * (a[4] * a[4])
    IN  IF l < r THEN -1 ELSE IF l = r THEN 0 ELSE 1

\* floor of the square root
RECURSIVE ISqrtIn(_, _, _)
ISqrtIn(n, lo, hi) ==
    IF lo >= hi THEN lo
    ELSE LET mid == (lo + hi + 1) \div 2
         IN  IF mid * mid <= n THEN ISqrtIn(n, mid, hi) ELSE ISqrtIn(n, lo, mid - 1)

ISqrt(n) == ISqrtIn(n, 0, IF n < 46340 THEN n ELSE 46340)

\* np.linalg.norm(u - v), in units of 1/Precision, rounded down
Norm(u, v) == ISqrt(SqNum(u, v) * Precision * Precision) \div (u[4] * v[4])

(***************************************************************************)
(* The data file: rows of the spreadsheet, a macro cell either a number or *)
(* missing (NaN).                                                          *)
(***************************************************************************)
\* a cell of a macro column
Num(v) == [kind |-> "number", val |-> v]
NaN == [kind |-> "nan", val |-> 0]
Text == [kind |-> "text", val |-> 0]

SourceRow(name, category, kcal, protein, fat, carbs) ==
    [Name |-> name, Category |-> category,
     kcal |-> kcal, protein |-> protein, fat |-> fat, carbs |-> carbs]

Food(name, category, kcal, protein, fat, carbs) ==
    SourceRow(name, category, Num(kcal), Num(protein), Num(fat), Num(carbs))

BaseRows ==
    << Food(<<"a", "b">>, "Meat",  90, 20,  0,  0),
       Food(<<"a">>,      "Fish", 100, 16,  4,  0),
       Food(<<"A", "b">>, "Meat",  65,  5,  5,  0),
       Food(<<"b", " ">>, "Fruit", 80,  0,  0, 20),
       SourceRow(<<"b", "b", "a">>, "Dairy", Num(40), NaN, Num(2), Num(8)),
       Food(<<"b", "b">>, "Fruit", 50,  0,  2,  8),
       Food(<<"b", "a">>, "Veg",   15,  1,  1,  1),
       SourceRow(<<"a", "b", "a">>, "Veg", Num(30), Num(3), Text, Num(3)),
       Food(<<"B">>,      "Oil",  180,  0, 20,  0),
       Food(<<"a", "a">>, "Meat", 120, 12,  8,  0) >>

\* rows a data file may carry besides the base rows
ExtraRows ==
    { Food(<<"a", "b">>, "Meat",  45,  8,  2,  0),
      Food(<<"b", "A">>, "Drink",  0,  0,  0,  0),
      Food(<<"a", " ">>, "Fruit", 50,  4,  4,  4) }

InsertAt(s, i, x) == SubSeq(s, 1, i - 1) \o <<x>> \o SubSeq(s, i, Len(s))

\* where an extra row may stand in the file
ExtraPositions == {1, 5, Len(BaseRows) + 1}

\* a fruit row watered down to a quarter of its macros
Dilute(r) ==
    IF r.Category = "Fruit"
    THEN Food(r.Name, r.Category, r.kcal.val \div 4,
              r.protein.val \div 4, r.fat.val \div 4, r.carbs.val \div 4)
    ELSE r

DataFiles ==
    {BaseRows, [i \in 1..Len(BaseRows) |-> Dilute(BaseRows[i])]}
        \cup {InsertAt(BaseRows, i, x) : i \in ExtraPositions, x \in ExtraRows}

(***************************************************************************)
(* load_and_preprocess_data: drop the rows with a missing macro, add the   *)
(* three ratio columns.                                                    *)
(***************************************************************************)
required_columns ==
    {"Name", "Category", "Energy, kilocalories (kcal)", "Protein (g)",
     "Fat, total (g)", "Carbohydrates, available (g)"}

\* what stands at data_filepath: whether a file exists there, whether it parses
\* as a spreadsheet, its lines (the column titles a line carries: those of the
\* header in line header_row, counted from 0, none in the other lines), and the
\* rows below the header
File(exists, parses, header_row, columns, rows) ==
    [exists |-> exists, parses |-> parses,
     lines |-> [i \in 1..(header_row + 1 + Len(rows)) |->
                   IF i = header_row + 1 THEN columns ELSE {}],
     rows |-> rows]

\* the header rows of the files
HeaderRows == {0, 2}

\* complete files: every required column and one more, the header in row 0 (as
\* the tests write them) or in row 2 (below a title and a blank row)
GoodFiles ==
    {File(TRUE, TRUE, 2, required_columns \cup {"ID"}, rows) : rows \in DataFiles}
        \cup {File(TRUE, TRUE, h, required_columns, BaseRows) : h \in HeaderRows}

\* files on which construction fails: no file at the path; a file that is no
\* spreadsheet; a header below the rows probed; a header without some required
\* columns; fewer complete rows than clusters
BadFiles ==
    { File(FALSE, FALSE, 0, {}, <<>>),
      File(TRUE, FALSE, 0, {}, <<>>),
      File(TRUE, TRUE, 4, required_columns, BaseRows),
      File(TRUE, TRUE, 2, required_columns \ {"Category"}, BaseRows),
      File(TRUE, TRUE, 0, required_columns \ {"Protein (g)", "Fat, total (g)"}, BaseRows),
      File(TRUE, TRUE, 2, required_columns, SubSeq(BaseRows, 3, 6)) }

Files == GoodFiles \cup BadFiles

\* pd.read_excel(filepath, header=header_idx): raises on a file that does not
\* parse and on a header line beyond the last line; else the frame's columns
\* are the cells of line header_idx
read_excel(file, header_idx) ==
    [raised |-> ~ file.parses \/ header_idx >= Len(file.lines),
     columns |-> IF file.parses /\ header_idx < Len(file.lines)
                    /\ file.lines[header_idx + 1] # {}
                 THEN file.lines[header_idx + 1] ELSE {"Unnamed: 0"}]

\* mutant: the lines are tried from the top
header_rows_ascending == <<0, 1, 2, 3>>

\* for header_idx in [2, 1, 0, 3]
header_rows_tried == <<2, 1, 0, 3>>

\* the frame of the first header row tried at which no required column is missing
HeaderFound(file) ==
    \E k \in 1..Len(header_rows_tried) :
        LET test_df == read_excel(file, header_rows_tried[k])
        IN  ~ test_df.raised /\ required_columns \subseteq test_df.columns

NoError == [type |-> "none", message |-> "", columns |-> {}]

\* raise FileNotFoundError(f"Data file not found: {filepath}")
FileNotFoundError ==
    [type |-> "FileNotFoundError", message |-> "Data file not found", columns |-> {}]

\* raise ValueError(f"Missing required columns: {required_columns}" ...)
MissingColumnsError(file) ==
    [type |-> "ValueError", message |-> "Missing required columns",
     columns |-> required_columns]

\* the exception load_and_preprocess_data raises on the file, or NoError
LoadError(file) ==
    IF ~ file.exists THEN FileNotFoundError
    ELSE IF ~ HeaderFound(file) THEN MissingColumnsError(file)
    ELSE NoError

macro_columns == {"kcal", "protein", "fat", "carbs"}

\* df.dropna(subset=macro_columns)
DropNa(rows) == SelectSeq(rows, LAMBDA r : \A col \in macro_columns : r[col].kind # "nan")

\* mutant: a cell that is no number becomes 0
ToNumericOrZero(cell) == IF cell.kind = "number" THEN cell ELSE Num(0)

\* pd.to_numeric(errors='coerce'): a cell that is no number becomes NaN
ToNumeric(cell) == IF cell.kind = "number" THEN cell ELSE NaN

Coerce(r) ==
    [Name |-> r.Name, Category |-> r.Category,
     kcal |-> ToNumeric(r.kcal), protein |-> ToNumeric(r.protein),
     fat |-> ToNumeric(r.fat), carbs |-> ToNumeric(r.carbs)]

\* mutant: the undefined ratio 0/0 is filled with 1
PctFillOne(x, total) == IF total = 0 THEN <<1, 1>> ELSE <<x, total>>

\* (x / total).fillna(0): 0/0 is NaN and becomes 0
Pct(x, total) == IF total = 0 THEN <<0, 1>> ELSE <<x, total>>

AddPct(r) ==
    LET total_macros_g == r.protein.val + r.fat.val + r.carbs.val
    IN  [Name |-> r.Name, Category |-> r.Category,
         kcal |-> r.kcal.val, protein |-> r.protein.val,
         fat |-> r.fat.val, carbs |-> r.carbs.val,
         protein_pct |-> Pct(r.protein.val, total_macros_g),
         fat_pct |-> Pct(r.fat.val, total_macros_g),
         carbs_pct |-> Pct(r.carbs.val, total_macros_g)]

load_and_preprocess_data(file) ==
    LET present == DropNa(file)
        numeric == DropNa([i \in 1..Len(present) |-> Coerce(present[i])])
    IN  [i \in 1..Len(numeric) |-> AddPct(numeric[i])]

(***************************************************************************)
(* The preprocessor as the engine uses it: the three ratio columns, passed *)
(* through, give the feature vector.  The loader fits its pipeline on one  *)
(* column more, kcal; the model follows the engine's ratio-only feature    *)
(* space, and the column lists of both sides are kept below.               *)
(***************************************************************************)
\* the columns pipeline.fit is given by the loader
fit_columns == {"kcal", "protein_pct", "fat_pct", "carbs_pct"}

\* the columns of X_raw, which the constructor passes to transform
feature_columns == {"protein_pct", "fat_pct", "carbs_pct"}

\* the columns of target_df, which get_goal_aligned_foods passes to transform
target_columns == {"protein_pct", "fat_pct", "carbs_pct"}

Transform(protein_pct, fat_pct, carbs_pct) ==
    Normalize(<<protein_pct[1], fat_pct[1], carbs_pct[1], protein_pct[2]>>)

(***************************************************************************)
(* KMeans.  The fit is library code: the model keeps what the engine       *)
(* relies on, n_clusters centres and, for each row, the id of its nearest  *)
(* centre.  A fit is drawn from a family: m distinct centres, standing at  *)
(* the first m feature rows.                                               *)
(***************************************************************************)
ClusterIds == 0..(n_clusters - 1)

DistinctCentres == {1, 3, n_clusters}

KMeansFit(X, m) == [k \in ClusterIds |-> X[(k % m) + 1]]

\* kmeans_model.predict: the nearest centre, the lowest id among equals
Predict(centres, v) ==
    CHOOSE k \in ClusterIds :
        /\ \A j \in ClusterIds : CmpDist(v, centres[k], centres[j]) <= 0
        /\ \A j \in 0..(k - 1) : CmpDist(v, centres[j], centres[k]) > 0

(***************************************************************************)
(* NearestNeighbors.kneighbors: the k rows nearest to v, nearest first.    *)
(* The order of rows at equal distance is not fixed by the library: tb     *)
(* names the order taken.                                                  *)
(***************************************************************************)
TieBreaks == {"asc", "desc"}

TieBefore(tb, i, j) == IF tb = "asc" THEN i < j ELSE i > j

\* the members of S as a sequence, each at the place its rank gives: rank[x] is
\* the number of members that stand before x
SeqByRank(S, rank) == [r \in 1..Cardinality(S) |-> CHOOSE x \in S : rank[x] = r - 1]

\* mutant: every fitted row is returned, however many were asked for
KNeighborsUnbounded(X, v, k, tb) ==
    LET sq == [i \in 1..Len(X) |-> SqNum(v, X[i])]
        dd == [i \in 1..Len(X) |-> X[i][4] * X[i][4]]
        Before(i, j) ==
            \/ sq[i] * dd[j] < sq[j] * dd[i]
            \/ sq[i] * dd[j] = sq[j] * dd[i] /\ TieBefore(tb, i, j)
        rank == [i \in 1..Len(X) |-> Cardinality({j \in 1..Len(X) : Before(j, i)})]
    IN  SeqByRank(1..Len(X), rank)

KNeighbors(X, v, k, tb) ==
    LET sq == [i \in 1..Len(X) |-> SqNum(v, X[i])]
        dd == [i \in 1..Len(X) |-> X[i][4] * X[i][4]]
        Before(i, j) ==
            \/ sq[i] * dd[j] < sq[j] * dd[i]
            \/ sq[i] * dd[j] = sq[j] * dd[i] /\ TieBefore(tb, i, j)
        rank == [i \in 1..Len(X) |-> Cardinality({j \in 1..Len(X) : Before(j, i)})]
    IN  SubSeq(SeqByRank(1..Len(X), rank), 1, k)

(***************************************************************************)
(* RecommendationEngine.__init__                                           *)
(***************************************************************************)
NoCall == [op |-> "none"]

Min(a, b) == IF a < b THEN a ELSE b

FeatureMatrix(table) ==
    [i \in 1..Len(table) |->
        Transform(table[i].protein_pct, table[i].fat_pct, table[i].carbs_pct)]

\* mutant: the row gets the id after the one the model assigned
WithClusterShifted(r, c) ==
    [Name |-> r.Name, Category |-> r.Category,
     kcal |-> r.kcal, protein |-> r.protein, fat |-> r.fat, carbs |-> r.carbs,
     protein_pct |-> r.protein_pct, fat_pct |-> r.fat_pct, carbs_pct |-> r.carbs_pct,
     cluster |-> (c + 1) % n_clusters]

\* self.data['cluster'] = self.kmeans_model.labels_, for one row
WithCluster(r, c) ==
    [Name |-> r.Name, Category |-> r.Category,
     kcal |-> r.kcal, protein |-> r.protein, fat |-> r.fat, carbs |-> r.carbs,
     protein_pct |-> r.protein_pct, fat_pct |-> r.fat_pct, carbs_pct |-> r.carbs_pct,
     cluster |-> c]

\* KMeans.fit on fewer rows than clusters
TooFewSamplesError ==
    [type |-> "ValueError", message |-> "n_samples should be >= n_clusters", columns |-> {}]

\* the constructor raised e: there is no engine object
NotConstructed(e) ==
    [engine |-> "None", error |-> e, data |-> <<>>, X_features |-> <<>>,
     kmeans_model |-> <<>>, nn_model |-> <<>>]

\* the engine built from the file, the cluster fit being the one with m distinct
\* centres; what load_engine holds after an exception is None
RecommendationEngine(file, m) ==
    LET table == load_and_preprocess_data(file.rows)
        X == FeatureMatrix(table)
        centres == KMeansFit(X, m)
    IN  IF LoadError(file) # NoError THEN NotConstructed(LoadError(file))
        ELSE IF Len(X) < n_clusters THEN NotConstructed(TooFewSamplesError)
        ELSE [engine |-> "RecommendationEngine", error |-> NoError,
              data |-> [i \in 1..Len(table) |->
                           WithCluster(table[i], Predict(centres, X[i]))],
              X_features |-> X, kmeans_model |-> centres, nn_model |-> X]

Init ==
    \E file \in Files, m \in DistinctCentres :
        LET built == RecommendationEngine(file, m)
        IN  /\ datafile = file
            /\ engine = built.engine
            /\ error = built.error
            /\ data = built.data
            /\ X_features = built.X_features
            /\ kmeans_model = built.kmeans_model
            /\ nn_model = built.nn_model
            /\ call = NoCall
            /\ twin = Idle /\ loader = Idle /\ api = Idle /\ session = Idle

\* mutant: the labels are one off the positions
RowLabelsRotated == [i \in 1..Len(data) |-> (i % Len(data)) + 1]

\* self.data.reset_index(drop=True): the label of the row at position i is i,
\* whatever labels the loader's dropped rows left
RowLabels == [i \in 1..Len(data) |-> i]

\* mutant: the dashboard does not look whether an engine was loaded
EngineLoadedUnchecked == TRUE

\* the dashboard asks for recommendations unless engine is None
EngineLoaded == engine # "None"

(***************************************************************************)
(* get_similar_foods                                                       *)
(***************************************************************************)
output_columns(r) ==
    [Name |-> r.Name, Category |-> r.Category,
     kcal |-> r.kcal, protein |-> r.protein, fat |-> r.fat, carbs |-> r.carbs]

\* positions whose name equals food_name, case-insensitively
ExactMask(food_name) ==
    {i \in 1..Len(data) : Lower(data[i].Name) = Lower(food_name)}

\* positions whose name contains food_name, case-insensitively
PartialMask(food_name) ==
    {i \in 1..Len(data) : Contains(Lower(data[i].Name), Lower(food_name))}

\* mutant: the substring match is tried first
food_mask_partial_first(food_name) ==
    IF PartialMask(food_name) # {} THEN PartialMask(food_name) ELSE ExactMask(food_name)

food_mask(food_name) ==
    IF ExactMask(food_name) # {} THEN ExactMask(food_name) ELSE PartialMask(food_name)

\* food_mask[food_mask].index[0]
FirstOf(mask) == CHOOSE i \in mask : \A j \in mask : i <= j

\* mutant: the window's first row is taken to be the query row
neighbors_drop_first(food_pos_idx, neighbor_indices) ==
    SubSeq(neighbor_indices, 2, Len(neighbor_indices))

\* mutant: the query row is not removed from the window
neighbors_keep_self(food_pos_idx, neighbor_indices) == neighbor_indices

\* the rows of the window other than the query row, each with its category flag
neighbors_with_info(food_pos_idx, neighbor_indices) ==
    SelectSeq(neighbor_indices, LAMBDA pos_idx : pos_idx # food_pos_idx)

\* mutant: ranked by distance alone
RankedByDistance(food_pos_idx, neighbors) ==
    LET q == X_features[food_pos_idx]
        Before(i, j) ==
            LET c == CmpDist(q, X_features[neighbors[i]], X_features[neighbors[j]])
            IN  c < 0 \/ (c = 0 /\ i < j)
        positions == 1..Len(neighbors)
        rank == [i \in positions |-> Cardinality({j \in positions : Before(j, i)})]
        order == SeqByRank(positions, rank)
    IN  [r \in 1..Len(neighbors) |-> neighbors[order[r]]]

\* sorted(neighbors_with_info, key=(not same_category, macro_diff)); the sort is
\* stable, so equal keys keep the order of the window
Ranked(food_pos_idx, neighbors) ==
    LET q == X_features[food_pos_idx]
        NotSame(i) == IF data[neighbors[i]].Category = data[food_pos_idx].Category THEN 0 ELSE 1
        Before(i, j) ==
            \/ NotSame(i) < NotSame(j)
            \/ /\ NotSame(i) = NotSame(j)
               /\ LET c == CmpDist(q, X_features[neighbors[i]], X_features[neighbors[j]])
                  IN  c < 0 \/ (c = 0 /\ i < j)
        positions == 1..Len(neighbors)
        rank == [i \in positions |-> Cardinality({j \in positions : Before(j, i)})]
        order == SeqByRank(positions, rank)
    IN  [r \in 1..Len(neighbors) |-> neighbors[order[r]]]

SimilarCall(food_name, n, outcome, idx, window, final) ==
    [op |-> "get_similar_foods", food_name |-> food_name, n |-> n,
     outcome |-> outcome, food_pos_idx |-> idx, neighbor_indices |-> window,
     final_pos_indices |-> final,
     result |-> [r \in 1..Len(final) |-> output_columns(data[final[r]])]]

\* mutant: the window is not clamped to the table
search_neighbors_unclamped(n_recommendations) == n_recommendations * 3 + 1

\* min(n_recommendations * 3 + 1, len(self.data))
search_neighbors(n_recommendations) == Min(n_recommendations * 3 + 1, Len(data))

get_similar_foods(food_name, n_recommendations, tb) ==
    LET mask == food_mask(food_name)
    IN  IF mask = {}
        THEN \* the debug search for similar names splits the query into words
             IF food_name # <<>> /\ Split(Lower(food_name)) = <<>>
             THEN SimilarCall(food_name, n_recommendations, "IndexError", 0, <<>>, <<>>)
             ELSE SimilarCall(food_name, n_recommendations, "returned", 0, <<>>, <<>>)
        ELSE LET food_pos_idx == RowLabels[FirstOf(mask)]
                 k == search_neighbors(n_recommendations)
                 neighbor_indices == KNeighbors(nn_model, X_features[food_pos_idx], k, tb)
                 neighbors == neighbors_with_info(food_pos_idx, neighbor_indices)
                 ranked == Ranked(food_pos_idx, neighbors)
                 top_neighbors == SubSeq(ranked, 1, Min(n_recommendations, Len(ranked)))
             IN  IF k > Len(nn_model)
                 THEN \* kneighbors rejects more neighbours than fitted rows
                      SimilarCall(food_name, n_recommendations, "ValueError",
                                  food_pos_idx, <<>>, <<>>)
                 ELSE SimilarCall(food_name, n_recommendations, "returned",
                                  food_pos_idx, neighbor_indices, top_neighbors)

GetSimilarFoods ==
    /\ EngineLoaded
    /\ call = NoCall
    /\ \E food_name \in QueryNames, n \in RecCounts, tb \in TieBreaks :
           call' = get_similar_foods(food_name, n, tb)
    /\ UNCHANGED <<datafile, engine, error, data, X_features, kmeans_model, nn_model,
                 twin, loader, api, session>>

(***************************************************************************)
(* get_goal_aligned_foods                                                  *)
(***************************************************************************)
Macros(kcal, protein, fat, carbs) ==
    [kcal |-> kcal, protein |-> protein, fat |-> fat, carbs |-> carbs]

\* the amounts a caller passes as remaining
RemainingAmounts == {0, 5, 50}

RemainingKcal == {0, 500}

RemainingMacros ==
    {Macros(k, p, f, c) : k \in RemainingKcal,
                          p \in RemainingAmounts, f \in RemainingAmounts,
                          c \in RemainingAmounts}

\* user_goals: None, or the daily targets
None == [given |-> FALSE, kcal |-> 0, protein |-> 0, fat |-> 0, carbs |-> 0]

Goals(kcal, protein, fat, carbs) ==
    [given |-> TRUE, kcal |-> kcal, protein |-> protein, fat |-> fat, carbs |-> carbs]

UserGoals == {None, Goals(2000, 200, 60, 0)}

\* goal_completion[m] > 0.5, with goal_completion[m] = 1 - remaining/goal, or 0
\* for a goal that is not positive
MostlyMet(remaining, goal) == goal > 0 /\ 2 * remaining < goal

\* pct > percent/100
Above(pct, percent) == pct[1] * 100 > percent * pct[2]

\* mutant: only the filter on the macros hardly needed any more is applied
is_suitable_remaining_only(food, remaining_macros, user_goals) ==
    /\ ~ (remaining_macros.fat < 10 /\ Above(food.fat_pct, 50))
    /\ ~ (remaining_macros.protein < 10 /\ Above(food.protein_pct, 50))
    /\ ~ (remaining_macros.carbs < 10 /\ Above(food.carbs_pct, 50))

\* mutant: both filters are applied only when user_goals is given
is_suitable_only_with_goals(food, remaining_macros, user_goals) ==
    ~ /\ user_goals.given
      /\ \/ MostlyMet(remaining_macros.fat, user_goals.fat) /\ Above(food.fat_pct, 60)
         \/ MostlyMet(remaining_macros.protein, user_goals.protein)
                /\ Above(food.protein_pct, 60)
         \/ MostlyMet(remaining_macros.carbs, user_goals.carbs)
                /\ Above(food.carbs_pct, 60)
         \/ remaining_macros.fat < 10 /\ Above(food.fat_pct, 50)
         \/ remaining_macros.protein < 10 /\ Above(food.protein_pct, 50)
         \/ remaining_macros.carbs < 10 /\ Above(food.carbs_pct, 50)

is_suitable(food, remaining_macros, user_goals) ==
    /\ ~ /\ user_goals.given
         /\ \/ MostlyMet(remaining_macros.fat, user_goals.fat) /\ Above(food.fat_pct, 60)
            \/ MostlyMet(remaining_macros.protein, user_goals.protein)
                   /\ Above(food.protein_pct, 60)
            \/ MostlyMet(remaining_macros.carbs, user_goals.carbs)
                   /\ Above(food.carbs_pct, 60)
    /\ ~ (remaining_macros.fat < 10 /\ Above(food.fat_pct, 50))
    /\ ~ (remaining_macros.protein < 10 /\ Above(food.protein_pct, 50))
    /\ ~ (remaining_macros.carbs < 10 /\ Above(food.carbs_pct, 50))

MaxOf(S) == CHOOSE x \in S : \A y \in S : y <= x

\* mutant: the density filter is skipped
DenseEnoughAlways(food) == food.protein + food.fat + food.carbs >= 0

\* cluster_foods[cluster_foods['total_macros'] >= MIN_MACRO_DENSITY]
DenseEnough(food) == food.protein + food.fat + food.carbs >= MIN_MACRO_DENSITY

\* contribution * total_pfc_grams: the grams of each macro still needed, weighted
Contribution(food, remaining_macros) ==
    (IF remaining_macros.protein > 0 THEN food.protein * remaining_macros.protein ELSE 0)
    + (IF remaining_macros.fat > 0 THEN food.fat * remaining_macros.fat ELSE 0)
    + (IF remaining_macros.carbs > 0 THEN food.carbs * remaining_macros.carbs ELSE 0)

\* mutant: the two weights are exchanged
CombinedScoresSwapped(S, target_features, remaining_macros) ==
    LET ratio_distances == [i \in S |-> Norm(X_features[RowLabels[i]], target_features)]
        contribution_scores == [i \in S |-> Contribution(data[i], remaining_macros)]
        max_contribution == MaxOf({contribution_scores[i] : i \in S})
        max_distance == MaxOf({ratio_distances[i] : i \in S})
        normalized_distances ==
            [i \in S |-> IF max_distance > 0
                         THEN (ratio_distances[i] * Precision) \div max_distance
                         ELSE ratio_distances[i]]
        normalized_contributions ==
            [i \in S |-> IF max_contribution > 0
                         THEN (contribution_scores[i] * Precision) \div max_contribution
                         ELSE 0]
    IN  [i \in S |-> 6 * normalized_distances[i]
                     + 4 * (Precision - normalized_contributions[i])]

\* combined_scores, in units of 1 / (10 * Precision), for the positions in S
CombinedScores(S, target_features, remaining_macros) ==
    LET ratio_distances == [i \in S |-> Norm(X_features[RowLabels[i]], target_features)]
        contribution_scores == [i \in S |-> Contribution(data[i], remaining_macros)]
        max_contribution == MaxOf({contribution_scores[i] : i \in S})
        max_distance == MaxOf({ratio_distances[i] : i \in S})
        normalized_distances ==
            [i \in S |-> IF max_distance > 0
                         THEN (ratio_distances[i] * Precision) \div max_distance
                         ELSE ratio_distances[i]]
        normalized_contributions ==
            [i \in S |-> IF max_contribution > 0
                         THEN (contribution_scores[i] * Precision) \div max_contribution
                         ELSE 0]
    IN  [i \in S |-> 4 * normalized_distances[i]
                     + 6 * (Precision - normalized_contributions[i])]

\* frame.sort_values('score').head(n), as positions
TopByScore(S, score, n, tb) ==
    LET Before(i, j) == score[i] < score[j] \/ (score[i] = score[j] /\ TieBefore(tb, i, j))
        rank == [i \in S |-> Cardinality({j \in S : Before(j, i)})]
        sorted == SeqByRank(S, rank)
    IN  SubSeq(sorted, 1, Min(n, Len(sorted)))

\* mutant: no fall-back to the whole density-filtered set
SelectSuitableOnly(suitable_indices, cluster_foods, score, n_recommendations, tb) ==
    TopByScore(suitable_indices, score, n_recommendations, tb)

\* cluster_foods.loc[suitable_indices] when it has n rows, else cluster_foods
SelectFinal(suitable_indices, cluster_foods, score, n_recommendations, tb) ==
    IF Cardinality(suitable_indices) >= n_recommendations
    THEN TopByScore(suitable_indices, score, n_recommendations, tb)
    ELSE TopByScore(cluster_foods, score, n_recommendations, tb)

\* mutant: the candidates are not restricted to the predicted cluster
ClusterMaskAll(predicted_cluster) == 1..Len(data)

\* self.data['cluster'] == predicted_cluster
ClusterMask(predicted_cluster) ==
    {i \in 1..Len(data) : data[i].cluster = predicted_cluster}

\* mutant: only a negative total short-circuits
NothingRemainingStrict(total_pfc_grams) == total_pfc_grams < 0

\* total_pfc_grams <= 0: all macro goals are met
NothingRemaining(total_pfc_grams) == total_pfc_grams <= 0

\* stands for "no cluster was predicted": an id no cluster has
NoCluster == n_clusters

GoalCall(remaining_macros, user_goals, n, outcome, predicted, cluster_foods, suitable, score, final) ==
    [op |-> "get_goal_aligned_foods", remaining_macros |-> remaining_macros,
     user_goals |-> user_goals, n |-> n, outcome |-> outcome,
     predicted_cluster |-> predicted, cluster_foods |-> cluster_foods,
     suitable_indices |-> suitable, score |-> score, final_indices |-> final,
     result |-> [r \in 1..Len(final) |-> output_columns(data[final[r]])]]

get_goal_aligned_foods(remaining_macros, user_goals, n_recommendations, tb) ==
    LET total_pfc_grams ==
            remaining_macros.protein + remaining_macros.fat + remaining_macros.carbs
    IN  IF NothingRemaining(total_pfc_grams)
        THEN GoalCall(remaining_macros, user_goals, n_recommendations, "returned",
                      NoCluster, {}, {}, <<>>, <<>>)
        ELSE IF total_pfc_grams = 0
        THEN \* remaining_macros['protein'] / total_pfc_grams divides by zero
             GoalCall(remaining_macros, user_goals, n_recommendations, "ZeroDivisionError",
                      NoCluster, {}, {}, <<>>, <<>>)
        ELSE
        LET target_features ==
                Transform(<<remaining_macros.protein, total_pfc_grams>>,
                          <<remaining_macros.fat, total_pfc_grams>>,
                          <<remaining_macros.carbs, total_pfc_grams>>)
            predicted_cluster == Predict(kmeans_model, target_features)
            cluster_foods == {i \in ClusterMask(predicted_cluster) : DenseEnough(data[i])}
            suitable_indices ==
                {i \in cluster_foods : is_suitable(data[i], remaining_macros, user_goals)}
            score == CombinedScores(cluster_foods, target_features, remaining_macros)
            final_foods ==
                SelectFinal(suitable_indices, cluster_foods, score, n_recommendations, tb)
        IN  IF cluster_foods = {}
            THEN GoalCall(remaining_macros, user_goals, n_recommendations, "returned",
                          predicted_cluster, {}, {}, <<>>, <<>>)
            ELSE GoalCall(remaining_macros, user_goals, n_recommendations, "returned",
                          predicted_cluster, cluster_foods, suitable_indices,
                          score, final_foods)

\* mutant: the total_macros column is written to the table itself
GetGoalAlignedFoodsInPlace ==
    /\ EngineLoaded
    /\ call = NoCall
    /\ \E remaining_macros \in RemainingMacros, user_goals \in UserGoals,
          n \in RecCounts, tb \in TieBreaks :
           call' = get_goal_aligned_foods(remaining_macros, user_goals, n, tb)
    /\ data' = [i \in 1..Len(data) |->
                   [col \in DOMAIN data[i] \cup {"total_macros"} |->
                       IF col = "total_macros"
                       THEN data[i].protein + data[i].fat + data[i].carbs
                       ELSE data[i][col]]]
    /\ UNCHANGED <<datafile, engine, error, X_features, kmeans_model, nn_model,
                 twin, loader, api, session>>

GetGoalAlignedFoods ==
    /\ EngineLoaded
    /\ call = NoCall
    /\ \E remaining_macros \in RemainingMacros, user_goals \in UserGoals,
          n \in RecCounts, tb \in TieBreaks :
           call' = get_goal_aligned_foods(remaining_macros, user_goals, n, tb)
    /\ UNCHANGED <<datafile, engine, error, data, X_features, kmeans_model, nn_model,
                 twin, loader, api, session>>

(***************************************************************************)
(* The caller (the dashboard) shows the rows returned and drops them       *)
(* before it asks again.                                                   *)
(***************************************************************************)
Discard ==
    /\ call # NoCall
    /\ call' = NoCall
    /\ UNCHANGED <<datafile, engine, error, data, X_features, kmeans_model, nn_model,
                 twin, loader, api, session>>

Next == GetSimilarFoods \/ GetGoalAlignedFoods \/ Discard

Spec == Init /\ [][Next]_vars

(***************************************************************************)
(* Two engines built from one data file, and a query made twice.  The fit  *)
(* and the order among equals are library routines without a source of     *)
(* randomness but the seed: which fit and which order they yield is not    *)
(* known, but it is the same whenever the input is.                        *)
(***************************************************************************)
\* KMeans(random_state=42): the seed both constructions pass
random_state == 42

TwinFiles ==
    {File(TRUE, TRUE, 2, required_columns, rows) :
        rows \in {BaseRows} \cup {InsertAt(BaseRows, 5, x) : x \in ExtraRows}}

\* mutant: no seed is passed, the second fit is a draw of its own
SecondFitUnseeded(seed, m, other) == other

\* the fit of the second engine: with the same seed on the same matrix, the fit
\* the first engine got
SecondFit(seed, m, other) == IF seed = random_state THEN m ELSE other

\* the order among equals when the same call is made again
SameTie(tb, other) == tb

NotRepeated == [op |-> "not repeated"]

\* the query of the call c, made with the order tb among equals
Rerun(c, tb) ==
    IF c.op = "get_similar_foods"
    THEN get_similar_foods(c.food_name, c.n, tb)
    ELSE get_goal_aligned_foods(c.remaining_macros, c.user_goals, c.n, tb)

TwinInit ==
    \E file \in TwinFiles, m \in DistinctCentres, other \in DistinctCentres :
        LET built == RecommendationEngine(file, m)
            second == RecommendationEngine(file, SecondFit(random_state, m, other))
        IN  /\ datafile = file
            /\ engine = built.engine
            /\ error = built.error
            /\ data = built.data
            /\ X_features = built.X_features
            /\ kmeans_model = built.kmeans_model
            /\ nn_model = built.nn_model
            /\ call = NoCall
            /\ twin = [pc |-> "built", data |-> second.data,
                       X_features |-> second.X_features,
                       kmeans_model |-> second.kmeans_model,
                       nn_model |-> second.nn_model,
                       tb |-> "asc", repeated |-> NotRepeated]
            /\ loader = Idle /\ api = Idle /\ session = Idle

TwinGetSimilarFoods ==
    /\ EngineLoaded
    /\ call = NoCall
    /\ \E food_name \in QueryNames, n \in RecCounts, tb \in TieBreaks :
           /\ call' = get_similar_foods(food_name, n, tb)
           /\ twin' = [twin EXCEPT !.tb = tb]
    /\ UNCHANGED <<datafile, engine, error, data, X_features, kmeans_model, nn_model,
                   loader, api, session>>

TwinGetGoalAlignedFoods ==
    /\ EngineLoaded
    /\ call = NoCall
    /\ \E remaining_macros \in RemainingMacros, user_goals \in UserGoals,
          n \in RecCounts, tb \in TieBreaks :
           /\ call' = get_goal_aligned_foods(remaining_macros, user_goals, n, tb)
           /\ twin' = [twin EXCEPT !.tb = tb]
    /\ UNCHANGED <<datafile, engine, error, data, X_features, kmeans_model, nn_model,
                   loader, api, session>>

\* the call held is made once more
Repeat ==
    /\ call # NoCall
    /\ twin.repeated = NotRepeated
    /\ \E other \in TieBreaks :
           twin' = [twin EXCEPT !.repeated = Rerun(call, SameTie(twin.tb, other))]
    /\ UNCHANGED <<datafile, engine, error, data, X_features, kmeans_model, nn_model,
                   call, loader, api, session>>

TwinDiscard ==
    /\ call # NoCall
    /\ twin.repeated # NotRepeated
    /\ call' = NoCall
    /\ twin' = [twin EXCEPT !.repeated = NotRepeated, !.tb = "asc"]
    /\ UNCHANGED <<datafile, engine, error, data, X_features, kmeans_model, nn_model,
                   loader, api, session>>

TwinNext == TwinGetSimilarFoods \/ TwinGetGoalAlignedFoods \/ Repeat \/ TwinDiscard

TwinSpec == TwinInit /\ [][TwinNext]_vars

(***************************************************************************)
(* The client of the nutrition service (api_client.py).  A JSON value is   *)
(* a record with a type tag; an object is a record whose absent keys hold  *)
(* Absent.  Texts are sequences of characters.                             *)
(***************************************************************************)
MaxItems == 2

JStr(chars) == [t |-> "str", s |-> chars, n |-> 0]
JNum(x) == [t |-> "num", s |-> <<>>, n |-> x]
JNull == [t |-> "null", s |-> <<>>, n |-> 0]
Absent == [t |-> "absent", s |-> <<>>, n |-> 0]

\* the value of the key "food" of an item: absent, an object, or another value
NoFood == [present |-> FALSE, is_dict |-> FALSE,
           foodName |-> Absent, name |-> Absent, id |-> Absent, dbid |-> Absent]
FoodText == [NoFood EXCEPT !.present = TRUE]
FoodObject(foodName, name, id, dbid) ==
    [present |-> TRUE, is_dict |-> TRUE,
     foodName |-> foodName, name |-> name, id |-> id, dbid |-> dbid]

\* an item of the list the service returns
ItemObject(foodName, name, id, dbid, food) ==
    [is_dict |-> TRUE, foodName |-> foodName, name |-> name, id |-> id, dbid |-> dbid,
     food |-> food]
ItemText ==
    [is_dict |-> FALSE, foodName |-> Absent, name |-> Absent, id |-> Absent,
     dbid |-> Absent, food |-> NoFood]

NameTexts == {<<"a">>, <<"b">>}

SearchItems ==
    { ItemObject(Absent, JStr(<<"a">>), Absent, JNum(1), NoFood),
      ItemObject(JStr(<<"b">>), Absent, JNum(2), Absent, NoFood),
      ItemObject(Absent, Absent, Absent, Absent,
                 FoodObject(Absent, JStr(<<"a">>), Absent, JNum(3))),
      ItemObject(Absent, JStr(<<"a">>), Absent, Absent, NoFood),
      ItemObject(Absent, Absent, Absent, JNum(1), NoFood),
      ItemText,
      ItemObject(Absent, JNum(7), Absent, JNum(1), NoFood),
      ItemObject(Absent, JStr(<<"a">>), Absent, JNum(1),
                 FoodObject(JStr(<<"b">>), Absent, JNum(2), Absent)),
      ItemObject(Absent, JStr(<<"b">>), Absent, JNum(2), FoodText) }

ItemLists == UNION {[1..k -> SearchItems] : k \in 0..MaxItems}

\* the body of a response to a search: not JSON, a list, an object with one key
\* that holds a list, or another JSON value
SearchBody(kind, key, items) == [kind |-> kind, key |-> key, items |-> items]
list_keys == <<"foods", "results", "data", "items">>
SearchBodies ==
    {SearchBody("invalid", "", <<>>), SearchBody("text", "", <<>>)}
    \cup {SearchBody("list", "", items) : items \in ItemLists}
    \cup {SearchBody("dict", key, items) :
            key \in {"foods", "items", "total"}, items \in {l \in ItemLists : Len(l) <= 1}}

StatusCodes == {200, 404, 500}
Failures == {"Timeout", "ConnectionError"}

\* what requests.get yields: a response, or an exception of the requests library
Answer(failure, status_code, body) ==
    [failure |-> failure, status_code |-> status_code, body |-> body]
SearchAnswers ==
    {Answer(f, 0, SearchBody("invalid", "", <<>>)) : f \in Failures}
    \cup {Answer("none", c, SearchBody("text", "", <<>>)) : c \in StatusCodes \ {200}}
    \cup {Answer("none", 200, b) : b \in SearchBodies}

Scores == {0, 50, 100}

Returns(value) == [raised |-> "none", value |-> value]
Raises(e) == [raised |-> e, value |-> <<>>]

\* lines 73-82 and 87-94: the first of the two keys that is present
FirstPresent(a, b, otherwise) ==
    IF a # Absent THEN a ELSE IF b # Absent THEN b ELSE otherwise

\* lines 69-94: the entry built from an item of a top-level list
food_dict(item) ==
    IF ~item.is_dict THEN [name |-> Absent, dbid |-> Absent]
    ELSE LET flat == [name |-> FirstPresent(item.foodName, item.name, Absent),
                      dbid |-> FirstPresent(item.id, item.dbid, Absent)]
         IN  IF item.food.present /\ item.food.is_dict
             THEN [name |-> FirstPresent(item.food.foodName, item.food.name, flat.name),
                   dbid |-> FirstPresent(item.food.id, item.food.dbid, flat.dbid)]
             ELSE flat

\* lines 111-123: the entry built from an item of a list held under a key
food_dict_flat(item) ==
    IF ~item.is_dict THEN [name |-> Absent, dbid |-> Absent]
    ELSE [name |-> FirstPresent(item.foodName, item.name, Absent),
          dbid |-> FirstPresent(item.id, item.dbid, Absent)]

HasBoth(d) == d.name # Absent /\ d.dbid # Absent

\* lines 63-126
Results(body) ==
    IF body.kind = "list"
    THEN SelectSeq([i \in 1..Len(body.items) |-> food_dict(body.items[i])], HasBoth)
    ELSE IF body.kind = "dict" /\ \E i \in 1..Len(list_keys) : list_keys[i] = body.key
    THEN SelectSeq([i \in 1..Len(body.items) |-> food_dict_flat(body.items[i])], HasBoth)
    ELSE <<>>

\* results.sort(key=..., reverse=True): by falling score, equal scores keep
\* their order
SortByScore(results, score) ==
    LET n == Len(results)
        key(i) == score[results[i].name.s]
        rank(i) == Cardinality({j \in 1..n : key(j) > key(i) \/ (key(j) = key(i) /\ j < i)})
    IN  [p \in 1..n |-> results[CHOOSE i \in 1..n : rank(i) = p - 1]]

\* mutant: the sort is applied whether or not the library is there and asked for
FuzzyRankedAlways(results, use_fuzzy, available, score) ==
    IF results = <<>>
    THEN Returns(results)
    ELSE IF \E i \in 1..Len(results) : results[i].name.t # "str"
    THEN Raises("AttributeError")
    ELSE Returns(SortByScore(results, score))

\* lines 129-136: x["name"].lower() raises on a name that is not a text
FuzzyRanked(results, use_fuzzy, available, score) ==
    IF results # <<>> /\ use_fuzzy /\ available
    THEN IF \E i \in 1..Len(results) : results[i].name.t # "str"
         THEN Raises("AttributeError")
         ELSE Returns(SortByScore(results, score))
    ELSE Returns(results)

\* lines 56-141, the body of the try statement
search_food_try(answer, use_fuzzy, available, score) ==
    IF answer.failure # "none" THEN Raises(answer.failure)
    ELSE IF answer.status_code # 200 THEN Returns(<<>>)
    ELSE IF answer.body.kind = "invalid" THEN Raises("JSONDecodeError")
    ELSE FuzzyRanked(Results(answer.body), use_fuzzy, available, score)

\* mutant: only the errors of the requests library are handled
HandledRequestErrorsOnly(outcome) ==
    IF outcome.raised \in Failures THEN Returns(<<>>) ELSE outcome

\* lines 143-154: every exception ends in the empty list
Handled(outcome) ==
    IF outcome.raised # "none" THEN Returns(<<>>) ELSE outcome

search_food(answer, use_fuzzy, available, score) ==
    Handled(search_food_try(answer, use_fuzzy, available, score))

\* lines 196-201
required_components ==
    [name \in {"Energy, kilocalories", "Protein", "Fat, total", "Carbohydrates, available"} |->
        CASE name = "Energy, kilocalories" -> "kcal"
          [] name = "Protein" -> "protein"
          [] name = "Fat, total" -> "fat"
          [] OTHER -> "carbs"]

result_keys == {required_components[name] : name \in DOMAIN required_components}

MaxValues == 4

\* an item of the 'values' array: {"component": {"name": ...}, "value": ...}
ValueItem(name, value) ==
    [is_dict |-> TRUE, has_component |-> TRUE, component_is_dict |-> TRUE,
     has_name |-> TRUE, name |-> name, value |-> value]
ValueNoComponent == [ValueItem("", JNum(1)) EXCEPT !.has_component = FALSE,
                                                   !.component_is_dict = FALSE,
                                                   !.has_name = FALSE]

DetailItems ==
    { ValueItem("Energy, kilocalories", JNum(165)),
      ValueItem("Protein", JNum(31)),
      ValueItem("Fat, total", JStr(<<"1", "2">>)),
      ValueItem("Carbohydrates, available", JNum(0)),
      ValueItem("Protein", JStr(<<"n", "a">>)),
      ValueItem("Fat, total", JNull),
      ValueItem("Carbohydrates, available", Absent),
      ValueItem("Water", JNum(70)),
      ValueNoComponent }

ValueLists == UNION {[1..k -> DetailItems] : k \in 0..MaxValues}

\* macro values carried under the column titles ("Protein (g)", ...)
Titled(kcal, protein, fat, carbs) ==
    [kcal |-> kcal, protein |-> protein, fat |-> fat, carbs |-> carbs]
NoTitled == Titled(Absent, Absent, Absent, Absent)
TitledMacros ==
    { Titled(JNum(165), JNum(31), JNum(4), JNum(0)),
      Titled(JNum(52), JNum(1), JNum(2), JNum(14)),
      Titled(JNum(165), Absent, JNum(4), JNum(0)) }

\* the body of a response to a lookup: kind is "invalid", "list" or "dict"; an
\* object has the layout "values" (the key 'values'), "food" (titled macros in
\* a 'food' object), "flat" (titled macros at the top) or "other"
DetailsBody(kind, layout, titled, values_is_list, values) ==
    [kind |-> kind, layout |-> layout, titled |-> titled,
     values_is_list |-> values_is_list, values |-> values]
DetailsBodies ==
    {DetailsBody(kind, "", NoTitled, FALSE, <<>>) : kind \in {"invalid", "list"}}
    \cup {DetailsBody("dict", "other", NoTitled, FALSE, <<>>),
          DetailsBody("dict", "values", NoTitled, FALSE, <<>>)}
    \cup {DetailsBody("dict", layout, titled, FALSE, <<>>) :
            layout \in {"food", "flat"}, titled \in TitledMacros}
    \cup {DetailsBody("dict", "values", NoTitled, TRUE, values) : values \in ValueLists}

DetailsAnswers ==
    {Answer(f, 0, DetailsBody("invalid", "", NoTitled, FALSE, <<>>)) : f \in Failures}
    \cup {Answer("none", c, DetailsBody("invalid", "", NoTitled, FALSE, <<>>)) :
            c \in StatusCodes \ {200}}
    \cup {Answer("none", 200, b) : b \in DetailsBodies}

NoDetails == [is_none |-> TRUE, dict |-> <<>>]
Dict(d) == [is_none |-> FALSE, dict |-> d]

DigitChars == {"0", "1", "2", "3"}
DigitVal(c) == CASE c = "0" -> 0 [] c = "1" -> 1 [] c = "2" -> 2 [] OTHER -> 3

RECURSIVE ParseDigits(_, _)
ParseDigits(chars, acc) ==
    IF chars = <<>> THEN acc
    ELSE ParseDigits(Tail(chars), 10 * acc + DigitVal(Head(chars)))

\* float(value) of line 238
ToFloat(value) ==
    CASE value.t = "num" -> Returns(value.n)
      [] value.t = "str" ->
            IF value.s # <<>> /\ \A i \in 1..Len(value.s) : value.s[i] \in DigitChars
            THEN Returns(ParseDigits(value.s, 0))
            ELSE Raises("ValueError")
      [] OTHER -> Raises("TypeError")

Put(found, key, x) ==
    [k \in DOMAIN found \cup {key} |-> IF k = key THEN x ELSE found[k]]

\* lines 226-241: found_components after the items from position i on, or the
\* conversion error that ends the call
RECURSIVE Extract(_, _, _)
Extract(values, i, found) ==
    IF i > Len(values) THEN Returns(found)
    ELSE LET value_item == values[i]
             matches == value_item.is_dict /\ value_item.has_component
                        /\ value_item.component_is_dict /\ value_item.has_name
                        /\ value_item.name \in DOMAIN required_components
                        /\ value_item.value # Absent
         IN  IF ~matches THEN Extract(values, i + 1, found)
             ELSE LET x == ToFloat(value_item.value)
                  IN  IF x.raised # "none" THEN x
                      ELSE Extract(values, i + 1,
                                   Put(found, required_components[value_item.name], x.value))

\* mutant: what was found is returned although macros are missing
FoundOrNonePartial(found) == Dict(found)

\* lines 244-253
FoundOrNone(found) ==
    IF \E key \in result_keys : key \notin DOMAIN found THEN NoDetails ELSE Dict(found)

\* lines 205-263, the body of the try statement
get_food_details_try(answer) ==
    IF answer.failure # "none" THEN Raises(answer.failure)
    ELSE IF answer.status_code # 200 THEN Returns(NoDetails)
    ELSE IF answer.body.kind = "invalid" THEN Raises("JSONDecodeError")
    ELSE IF answer.body.kind = "dict" /\ answer.body.layout = "values"
    THEN IF ~answer.body.values_is_list THEN Returns(NoDetails)
         ELSE LET found == Extract(answer.body.values, 1, <<>>)
              IN  IF found.raised # "none" THEN Returns(NoDetails)
                  ELSE Returns(FoundOrNone(found.value))
    ELSE Returns(NoDetails)

\* lines 265-276: every exception ends in None
HandledDetails(outcome) ==
    IF outcome.raised # "none" THEN Returns(NoDetails) ELSE outcome

get_food_details(answer) == HandledDetails(get_food_details_try(answer))

ApiInit ==
    /\ \E file \in {File(TRUE, TRUE, 2, required_columns, BaseRows)} :
          LET built == RecommendationEngine(file, n_clusters)
          IN  /\ datafile = file
              /\ engine = built.engine
              /\ error = built.error
              /\ data = built.data
              /\ X_features = built.X_features
              /\ kmeans_model = built.kmeans_model
              /\ nn_model = built.nn_model
    /\ call = NoCall
    /\ twin = Idle /\ loader = Idle /\ api = Idle /\ session = Idle

SearchFood ==
    /\ api = Idle
    /\ \E answer \in SearchAnswers, use_fuzzy \in BOOLEAN, available \in BOOLEAN,
          score \in [NameTexts -> Scores] :
           api' = [pc |-> "returned", op |-> "search_food", answer |-> answer,
                   use_fuzzy |-> use_fuzzy, FUZZY_AVAILABLE |-> available,
                   score |-> score,
                   outcome |-> search_food(answer, use_fuzzy, available, score)]
    /\ UNCHANGED <<datafile, engine, error, data, X_features, kmeans_model, nn_model,
                   call, twin, loader, session>>

GetFoodDetails ==
    /\ api = Idle
    /\ \E answer \in DetailsAnswers :
           api' = [pc |-> "returned", op |-> "get_food_details", answer |-> answer,
                   outcome |-> get_food_details(answer)]
    /\ UNCHANGED <<datafile, engine, error, data, X_features, kmeans_model, nn_model,
                   call, twin, loader, session>>

\* the caller takes the value returned
ApiReturn ==
    /\ api # Idle
    /\ api' = Idle
    /\ UNCHANGED <<datafile, engine, error, data, X_features, kmeans_model, nn_model,
                   call, twin, loader, session>>

ApiNext == SearchFood \/ GetFoodDetails \/ ApiReturn

ApiSpec == ApiInit /\ [][ApiNext]_vars

(***************************************************************************)
(* The loader's search for the header line, step by step.                  *)
(***************************************************************************)
MaxLines == 4

\* the titles a line may carry: none (a title, blank or data line), the
\* required ones, or the required ones but one
LineTitles == {{}, required_columns, required_columns \ {"Category"}}

Sheet(exists, parses, lines) ==
    [exists |-> exists, parses |-> parses, lines |-> lines, rows |-> <<>>]

Sheets ==
    {Sheet(TRUE, TRUE, lines) : lines \in UNION {[1..k -> LineTitles] : k \in 1..MaxLines}}
        \cup {Sheet(FALSE, FALSE, <<{}>>), Sheet(TRUE, FALSE, <<{}>>)}

\* the loader at its first statement: nothing tried, df and header_row None
Started ==
    [pc |-> "start", k |-> 1, tried |-> <<>>, header_row |-> -1, error |-> NoError]

LoaderInit ==
    /\ datafile \in Sheets
    /\ engine = NotConstructed(NoError).engine
    /\ error = NoError
    /\ data = <<>>
    /\ X_features = <<>>
    /\ kmeans_model = <<>>
    /\ nn_model = <<>>
    /\ call = NoCall
    /\ loader = Started
    /\ twin = Idle /\ api = Idle /\ session = Idle

\* lines 63-65
CheckExists ==
    /\ loader.pc = "start"
    /\ loader' = IF datafile.exists
                 THEN [loader EXCEPT !.pc = "probing"]
                 ELSE [loader EXCEPT !.pc = "raised", !.error = FileNotFoundError]
    /\ UNCHANGED <<datafile, engine, error, data, X_features, kmeans_model, nn_model,
                   call, twin, api, session>>

\* lines 82-94: one turn of the loop; a read that raises and a frame that
\* lacks a column both go on to the next line, a complete frame ends the loop
Probe ==
    /\ loader.pc = "probing"
    /\ LET header_idx == header_rows_tried[loader.k]
           test_df == read_excel(datafile, header_idx)
           found == ~ test_df.raised /\ required_columns \subseteq test_df.columns
       IN  loader' = [loader EXCEPT
                        !.tried = Append(@, header_idx),
                        !.header_row = IF found THEN header_idx ELSE @,
                        !.k = @ + 1,
                        !.pc = IF found \/ loader.k = Len(header_rows_tried)
                               THEN "probed" ELSE "probing"]
    /\ UNCHANGED <<datafile, engine, error, data, X_features, kmeans_model, nn_model,
                   call, twin, api, session>>

\* lines 97-128: without a frame the loader raises, with one it goes on
Conclude ==
    /\ loader.pc = "probed"
    /\ loader' = IF loader.header_row = -1
                 THEN [loader EXCEPT !.pc = "raised", !.error = MissingColumnsError(datafile)]
                 ELSE [loader EXCEPT !.pc = "loaded"]
    /\ UNCHANGED <<datafile, engine, error, data, X_features, kmeans_model, nn_model,
                   call, twin, api, session>>

LoaderNext == CheckExists \/ Probe \/ Conclude

LoaderSpec == LoaderInit /\ [][LoaderNext]_vars

\* the statements of the loader follow one another: a step that can be taken is
\* taken
FairLoaderSpec == LoaderSpec /\ WF_vars(LoaderNext)

(***************************************************************************)
(* The dashboard script (app.py) within one session: every interaction     *)
(* runs the script from the top; st.session_state outlives the runs.       *)
(***************************************************************************)
MaxMeals == 2

Portions == {50, 100}

\* the answers of the service to the lookup of the food selected
LookupAnswers ==
    { Answer("Timeout", 0, DetailsBody("invalid", "", NoTitled, FALSE, <<>>)),
      Answer("none", 404, DetailsBody("invalid", "", NoTitled, FALSE, <<>>)),
      Answer("none", 200,
             DetailsBody("dict", "food", Titled(JNum(165), JNum(31), JNum(4), JNum(0)),
                         FALSE, <<>>)),
      Answer("none", 200,
             DetailsBody("dict", "values", NoTitled, TRUE,
                         << ValueItem("Energy, kilocalories", JNum(165)),
                            ValueItem("Protein", JNum(31)),
                            ValueItem("Fat, total", JStr(<<"1", "2">>)),
                            ValueItem("Carbohydrates, available", JNum(0)) >>)) }

\* lines 93-111: the entry for portion_size grams of a food with these details
logged_meal(portion_size, food_details) ==
    [portion_g |-> portion_size,
     kcal |-> (portion_size * food_details["kcal"]) \div 100,
     protein |-> (portion_size * food_details["protein"]) \div 100,
     carbs |-> (portion_size * food_details["carbs"]) \div 100,
     fat |-> (portion_size * food_details["fat"]) \div 100]

\* a session before its first script run: st.session_state is empty, nothing is
\* on the page
NewSession ==
    [pc |-> "waiting", loaded |-> FALSE, query |-> FALSE, submitted_log |-> FALSE,
     form_shown |-> FALSE, has_logged_meals |-> FALSE, logged_meals |-> <<>>,
     lookup |-> "none", caught |-> "none"]

DashInit ==
    /\ \E file \in {File(TRUE, TRUE, 2, required_columns, BaseRows)} :
          LET built == RecommendationEngine(file, n_clusters)
          IN  /\ datafile = file
              /\ engine = built.engine
              /\ error = built.error
              /\ data = built.data
              /\ X_features = built.X_features
              /\ kmeans_model = built.kmeans_model
              /\ nn_model = built.nn_model
    /\ call = NoCall
    /\ session = NewSession
    /\ twin = Idle /\ loader = Idle /\ api = Idle

\* the page is opened, or the user acts on a widget: the script runs from the
\* top.  The first run has an empty search box; the form can be submitted only
\* when it is on the page
StartRun ==
    /\ session.pc = "waiting"
    /\ \E query \in BOOLEAN, submitted_log \in BOOLEAN :
          /\ ~ session.loaded => (~ query /\ ~ submitted_log)
          /\ submitted_log =>
                (session.form_shown /\ query /\ Len(session.logged_meals) < MaxMeals)
          /\ session' = [session EXCEPT !.pc = "log", !.loaded = TRUE, !.query = query,
                                        !.submitted_log = submitted_log,
                                        !.lookup = "none", !.caught = "none"]
    /\ UNCHANGED <<datafile, engine, error, data, X_features, kmeans_model, nn_model,
                   call, twin, loader, api>>

\* mutant: the entry is appended twice
AppendedTwice(meals, entry) == Append(Append(meals, entry), entry)

\* line 114
Appended(meals, entry) == Append(meals, entry)

\* lines 42-140: the search, the form and, when the form was submitted, the
\* lookup and the append.  Without the key 'logged_meals' the append raises
\* AttributeError, which line 124 catches; st.rerun() ends the run
LogSection ==
    /\ session.pc = "log"
    /\ \E found \in BOOLEAN, answer \in LookupAnswers, portion_size \in Portions :
          LET food_details == get_food_details(answer).value
          IN  session' =
                 IF ~ session.query \/ ~ found
                 THEN [session EXCEPT !.pc = "init", !.form_shown = FALSE]
                 ELSE IF ~ session.submitted_log
                 THEN [session EXCEPT !.pc = "init", !.form_shown = TRUE]
                 ELSE IF food_details.is_none
                 THEN [session EXCEPT !.pc = "init", !.form_shown = TRUE,
                                      !.lookup = "failed"]
                 ELSE IF ~ session.has_logged_meals
                 THEN [session EXCEPT !.pc = "init", !.form_shown = TRUE,
                                      !.lookup = "ok", !.caught = "AttributeError"]
                 ELSE [session EXCEPT !.pc = "rerun", !.form_shown = TRUE,
                                      !.lookup = "ok",
                                      !.logged_meals =
                                          Appended(@, logged_meal(portion_size,
                                                                  food_details.dict))]
    /\ UNCHANGED <<datafile, engine, error, data, X_features, kmeans_model, nn_model,
                   call, twin, loader, api>>

\* st.rerun(): the script starts again, no form submitted
StRerun ==
    /\ session.pc = "rerun"
    /\ session' = [session EXCEPT !.pc = "log", !.submitted_log = FALSE]
    /\ UNCHANGED <<datafile, engine, error, data, X_features, kmeans_model, nn_model,
                   call, twin, loader, api>>

\* lines 154-155
InitSection ==
    /\ session.pc = "init"
    /\ session' = [session EXCEPT !.pc = "rest", !.has_logged_meals = TRUE,
                                  !.logged_meals = IF session.has_logged_meals THEN @ ELSE <<>>]
    /\ UNCHANGED <<datafile, engine, error, data, X_features, kmeans_model, nn_model,
                   call, twin, loader, api>>

\* lines 157-371 read the list and leave it as it is
RestOfScript ==
    /\ session.pc = "rest"
    /\ session' = [session EXCEPT !.pc = "waiting"]
    /\ UNCHANGED <<datafile, engine, error, data, X_features, kmeans_model, nn_model,
                   call, twin, loader, api>>

\* the user acts while the script runs: the run stops at its next st call
Interrupt ==
    /\ session.pc \in {"init", "rest"}
    /\ session' = [session EXCEPT !.pc = "waiting"]
    /\ UNCHANGED <<datafile, engine, error, data, X_features, kmeans_model, nn_model,
                   call, twin, loader, api>>

DashNext == StartRun \/ LogSection \/ StRerun \/ InitSection \/ RestOfScript \/ Interrupt

DashSpec == DashInit /\ [][DashNext]_vars

(***************************************************************************)
(* Properties of get_similar_foods.                                        *)
(***************************************************************************)
Similar == call.op = "get_similar_foods"

\* the call resolved food_name to a row
Resolved == Similar /\ call.food_pos_idx # 0

Returned(i) == \E r \in 1..Len(call.final_pos_indices) : call.final_pos_indices[r] = i

InWindow(i) == \E r \in 1..Len(call.neighbor_indices) : call.neighbor_indices[r] = i

\* C1: for a food_name that resolves to a row, the rows get_similar_foods
\* returns never include the resolved row itself.
C1_QueryRowExcluded ==
    Resolved => /\ ~ Returned(call.food_pos_idx)
                /\ call.result = [r \in 1..Len(call.final_pos_indices) |->
                                      output_columns(data[call.final_pos_indices[r]])]

\* the query row was in the window, not first in it, and rows were returned
C1_Witness ==
    /\ Resolved
    /\ Len(call.result) > 0
    /\ InWindow(call.food_pos_idx)
    /\ call.neighbor_indices[1] # call.food_pos_idx

\* C2 as stated: no returned row carries the Name of the resolved row.
C2_NameAbsent ==
    Resolved => \A r \in 1..Len(call.result) :
                    call.result[r].Name # data[call.food_pos_idx].Name

OtherRowsNamed(name) == {i \in 1..Len(data) : data[i].Name = name} \ {call.food_pos_idx}

\* C2 amended: a returned row carries the Name of the resolved row only if it is
\* another row of the table with that same Name; when the resolved row's Name is
\* unique in the table, it is absent from the result.
C2_NameAbsentUnlessDuplicate ==
    Resolved =>
        \A r \in 1..Len(call.result) :
            call.result[r].Name = data[call.food_pos_idx].Name
                => call.final_pos_indices[r] \in OtherRowsNamed(data[call.food_pos_idx].Name)

\* a unique name resolved, its row stood in the window, rows were returned
C2_Witness ==
    /\ Resolved
    /\ OtherRowsNamed(data[call.food_pos_idx].Name) = {}
    /\ InWindow(call.food_pos_idx)
    /\ Len(call.result) = call.n

\* C3: for a table of N rows and a food_name that resolves, get_similar_foods
\* returns exactly min(n, N-1) rows, and asking for 3n+1 > N neighbours does not fail.
C3_RowCount ==
    Resolved => /\ call.outcome = "returned"
                /\ Len(call.result) = Min(call.n, Len(data) - 1)

\* more neighbours wanted than rows exist, and fewer than n rows came back
C3_Witness ==
    /\ Resolved
    /\ 3 * call.n + 1 > Len(data)
    /\ Len(call.result) < call.n
    /\ Len(call.result) = Len(data) - 1

NoMatch(food_name) ==
    \A i \in 1..Len(data) :
        /\ Lower(data[i].Name) # Lower(food_name)
        /\ ~ Contains(Lower(data[i].Name), Lower(food_name))

\* C4: for every food_name, the empty and the whitespace-only ones included, that
\* matches no row name exactly and is contained in none, get_similar_foods returns
\* an empty result and raises no error.
C4_NotFoundIsEmpty ==
    (Similar /\ NoMatch(call.food_name)) =>
        (call.outcome = "returned" /\ call.result = <<>>)

\* C5: food_name resolves to the first row whose name equals it, case-insensitively;
\* only when there is none, to the first row whose name contains it; an exact
\* match wins over a substring match earlier in the table.
C5_Resolution ==
    Similar =>
        LET q == Lower(call.food_name)
            idx == call.food_pos_idx
            Exact(i) == Lower(data[i].Name) = q
            Partial(i) == Contains(Lower(data[i].Name), q)
        IN  IF \E i \in 1..Len(data) : Exact(i)
            THEN idx # 0 /\ Exact(idx) /\ \A j \in 1..(idx - 1) : ~ Exact(j)
            ELSE IF \E i \in 1..Len(data) : Partial(i)
            THEN idx # 0 /\ Partial(idx) /\ \A j \in 1..(idx - 1) : ~ Partial(j)
            ELSE idx = 0

\* the exact match chosen stands after a row that only contains food_name
C5_Witness ==
    /\ Resolved
    /\ Lower(data[call.food_pos_idx].Name) = Lower(call.food_name)
    /\ \E j \in 1..(call.food_pos_idx - 1) :
           Contains(Lower(data[j].Name), Lower(call.food_name))
    /\ Len(call.result) > 0

SameCategory(i) == data[i].Category = data[call.food_pos_idx].Category

\* C6: in the result, every row of the query food's Category stands before every
\* row of another Category, and within each group the rows stand in ascending
\* distance to the query vector.
C6_CategoryThenDistance ==
    Resolved =>
        \A r, t \in 1..Len(call.final_pos_indices) :
            r < t =>
                LET i == call.final_pos_indices[r]
                    j == call.final_pos_indices[t]
                    q == X_features[call.food_pos_idx]
                IN  /\ SameCategory(j) => SameCategory(i)
                    /\ (SameCategory(i) <=> SameCategory(j))
                           => CmpDist(q, X_features[i], X_features[j]) <= 0

\* a row of the query's category is returned ahead of a nearer row of another one,
\* and two rows of one group are returned at different distances
C6_Witness ==
    /\ Resolved
    /\ \E r, t \in 1..Len(call.final_pos_indices) :
           /\ r < t
           /\ SameCategory(call.final_pos_indices[r])
           /\ ~ SameCategory(call.final_pos_indices[t])
           /\ CmpDist(X_features[call.food_pos_idx],
                      X_features[call.final_pos_indices[t]],
                      X_features[call.final_pos_indices[r]]) < 0
    /\ \E r, t \in 1..Len(call.final_pos_indices) :
           /\ r < t
           /\ SameCategory(call.final_pos_indices[r]) <=> SameCategory(call.final_pos_indices[t])
           /\ CmpDist(X_features[call.food_pos_idx],
                      X_features[call.final_pos_indices[r]],
                      X_features[call.final_pos_indices[t]]) < 0

(***************************************************************************)
(* Properties of get_goal_aligned_foods.                                   *)
(***************************************************************************)
GoalAligned == call.op = "get_goal_aligned_foods"

TotalRemaining ==
    call.remaining_macros.protein + call.remaining_macros.fat + call.remaining_macros.carbs

TotalMacros(food) == food.protein + food.fat + food.carbs

\* C7: get_goal_aligned_foods returns an empty result whenever remaining
\* protein + fat + carbs <= 0, whatever kcal, user_goals and n are, without
\* predicting a cluster and without dividing by the zero total.
C7_NothingRemainingIsEmpty ==
    (GoalAligned /\ TotalRemaining <= 0) =>
        /\ call.outcome = "returned"
        /\ call.result = <<>>
        /\ call.predicted_cluster = NoCluster

\* nothing remains of the three macros while kcal remain and goals are given
C7_Witness ==
    /\ GoalAligned
    /\ TotalRemaining = 0
    /\ call.remaining_macros.kcal > 0
    /\ call.user_goals.given
    /\ call.n > 1
    /\ call.result = <<>>

\* C8: every row one get_goal_aligned_foods call returns has the cluster id
\* predicted for that call's target, in the suitable branch and in the fall-back.
C8_OneCluster ==
    GoalAligned =>
        \A r \in 1..Len(call.final_indices) :
            /\ data[call.final_indices[r]].cluster = call.predicted_cluster
            /\ call.result[r] = output_columns(data[call.final_indices[r]])

\* the fall-back was taken, returned several rows, and the table holds dense rows
\* of other clusters
C8_Witness ==
    /\ GoalAligned
    /\ Cardinality(call.suitable_indices) < call.n
    /\ call.suitable_indices # {}
    /\ Len(call.result) > 1
    /\ \E i \in 1..Len(data) :
           data[i].cluster # call.predicted_cluster /\ DenseEnough(data[i])

\* C9: no row get_goal_aligned_foods returns has protein + fat + carbs below 10,
\* in either branch, and a row of the predicted cluster with exactly 10 stays a
\* candidate.
C9_DensityFloor ==
    GoalAligned =>
        /\ \A r \in 1..Len(call.result) : TotalMacros(call.result[r]) >= 10
        /\ (call.outcome = "returned" /\ call.predicted_cluster # NoCluster) =>
               \A i \in 1..Len(data) :
                   (data[i].cluster = call.predicted_cluster /\ TotalMacros(data[i]) = 10)
                       => i \in call.cluster_foods

\* a row with exactly 10 g is returned while a row of the same cluster with less
\* is not
C9_Witness ==
    /\ GoalAligned
    /\ \E r \in 1..Len(call.result) : TotalMacros(call.result[r]) = 10
    /\ \E i \in 1..Len(data) :
           data[i].cluster = call.predicted_cluster /\ TotalMacros(data[i]) < 10

\* the rows of the predicted cluster with at least 10 g of macros
D == {i \in 1..Len(data) :
        data[i].cluster = call.predicted_cluster /\ TotalMacros(data[i]) >= 10}

\* C10: when something remains, get_goal_aligned_foods returns exactly
\* min(n, |D|) rows, D the rows of the predicted cluster with at least 10 g of
\* macros: never fewer than n because of the suitability filters, and none when
\* D is empty.
C10_RowCount ==
    (GoalAligned /\ TotalRemaining > 0) =>
        /\ call.outcome = "returned"
        /\ call.predicted_cluster \in ClusterIds
        /\ Len(call.result) = Min(call.n, Cardinality(D))

\* the suitability filters left fewer than n rows, and n rows are returned
C10_Witness ==
    /\ GoalAligned
    /\ TotalRemaining > 0
    /\ Cardinality(call.suitable_indices) < call.n
    /\ Len(call.result) = call.n
    /\ call.n > 1

\* the predicted cluster has rows, none dense enough: nothing is returned
C10_EmptyReached ==
    /\ GoalAligned
    /\ TotalRemaining > 0
    /\ D = {}
    /\ \E i \in 1..Len(data) : data[i].cluster = call.predicted_cluster
    /\ call.result = <<>>

(***************************************************************************)
(* The suitability filters and the selection.                              *)
(***************************************************************************)
MacroNames == {"protein", "fat", "carbs"}

\* the food's ratio of macro m, as a fraction <<grams of m, grams of all three>>
RatioOf(food, m) == <<food[m], TotalMacros(food)>>

\* ratio > percent / 100
RatioAbove(ratio, percent) == ratio[1] * 100 > percent * ratio[2]

\* 1 - remaining/goal > 0.5 for a goal that is given and positive
CompletionAboveHalf(m) ==
    /\ call.user_goals.given
    /\ call.user_goals[m] > 0
    /\ 2 * call.remaining_macros[m] < call.user_goals[m]

\* the food is rejected for macro m by the filter on macros mostly met
RejectedAsMostlyMet(food, m) == CompletionAboveHalf(m) /\ RatioAbove(RatioOf(food, m), 60)

\* the food is rejected for macro m by the filter on macros hardly needed
RejectedAsNotNeeded(food, m) ==
    call.remaining_macros[m] < 10 /\ RatioAbove(RatioOf(food, m), 50)

\* the rows of D no suitability filter rejects
SuitableInD ==
    {i \in D : \A m \in MacroNames :
                  ~ RejectedAsMostlyMet(data[i], m) /\ ~ RejectedAsNotNeeded(data[i], m)}

FinalSet == {call.final_indices[r] : r \in 1..Len(call.final_indices)}

\* the rows returned are Min(n, |pool|) distinct rows of pool, in ascending score,
\* and no row of pool left out has a lower score than a row returned
LowestOf(pool) ==
    /\ Len(call.final_indices) = Min(call.n, Cardinality(pool))
    /\ Cardinality(FinalSet) = Len(call.final_indices)
    /\ FinalSet \subseteq pool
    /\ \A r, t \in 1..Len(call.final_indices) :
           r < t => call.score[call.final_indices[r]] <= call.score[call.final_indices[t]]
    /\ \A i \in pool \ FinalSet : \A j \in FinalSet : call.score[j] <= call.score[i]

\* C11: when the suitability-filtered subset of the density-filtered cluster set
\* has at least n rows, the n lowest-score rows of that subset are returned, so no
\* returned food has a ratio above 0.60 of a macro whose completion exceeds 0.5
\* nor above 0.50 of a macro with under 10 g remaining; with fewer than n rows in
\* the subset, the n lowest-score rows of the whole density-filtered set are
\* returned.
C11_SuitableElseWhole ==
    (GoalAligned /\ TotalRemaining > 0 /\ D # {}) =>
        IF Cardinality(SuitableInD) >= call.n
        THEN /\ LowestOf(SuitableInD)
             /\ \A r \in 1..Len(call.result) : \A m \in MacroNames :
                    LET ratio == <<call.result[r][m], TotalMacros(call.result[r])>>
                    IN  /\ CompletionAboveHalf(m) => ~ RatioAbove(ratio, 60)
                        /\ call.remaining_macros[m] < 10 => ~ RatioAbove(ratio, 50)
        ELSE LowestOf(D)

\* n rows of the subset are returned while a row rejected only for a macro mostly
\* met, of which 10 g or more remain, scores lower than a row returned
C11_Witness ==
    /\ GoalAligned
    /\ TotalRemaining > 0
    /\ Cardinality(SuitableInD) >= call.n
    /\ Len(call.result) = call.n
    /\ \E i \in D \ SuitableInD :
           /\ \A m \in MacroNames : ~ RejectedAsNotNeeded(data[i], m)
           /\ \E j \in FinalSet : call.score[i] < call.score[j]

\* the call was made without user_goals and reached the filters
WithoutGoals == GoalAligned /\ ~ call.user_goals.given /\ TotalRemaining > 0 /\ D # {}

\* C12 as stated: without user_goals no candidate is eliminated by a suitability
\* filter and the result is the n lowest-score rows of the density-filtered
\* cluster set, whatever the remaining amounts are.
C12_NoFilterWithoutGoals ==
    WithoutGoals => (call.suitable_indices = D /\ LowestOf(D))

\* the rows of D that no macro with under 10 g remaining rejects
NeededInD == {i \in D : \A m \in MacroNames : ~ RejectedAsNotNeeded(data[i], m)}

\* C12 amended: only the filter on macros mostly met depends on user_goals.
\* Without user_goals a candidate is eliminated exactly when its ratio of a macro
\* with under 10 g remaining exceeds 0.50; the result is the n lowest-score rows
\* of the survivors when there are at least n, else of the whole density-filtered
\* cluster set.
C12_NotNeededFilterAlways ==
    WithoutGoals =>
        /\ call.suitable_indices = NeededInD
        /\ IF Cardinality(NeededInD) >= call.n THEN LowestOf(NeededInD) ELSE LowestOf(D)

\* without user_goals a row is eliminated, n survivors are returned, and the
\* eliminated row scores lower than one of them
C12_Witness ==
    /\ WithoutGoals
    /\ Cardinality(NeededInD) >= call.n
    /\ Len(call.result) = call.n
    /\ \E i \in D \ NeededInD : \E j \in FinalSet : call.score[i] < call.score[j]

(***************************************************************************)
(* The combined score.  Scores are in units of 1 / (10 * Precision): the   *)
(* interval [0, 1] is 0 .. 10 * Precision.                                 *)
(***************************************************************************)
\* the target vector: the remaining amounts as ratios of their total
TargetRatios ==
    Normalize(<<call.remaining_macros.protein, call.remaining_macros.fat,
                call.remaining_macros.carbs, TotalRemaining>>)

\* d: distance of row i to the target vector, in units of 1 / Precision
DistanceToTarget(i) == Norm(X_features[i], TargetRatios)

\* c * total_remaining: candidate grams times remaining grams, over the macros
GramsNeeded(i) ==
    data[i].protein * call.remaining_macros.protein
    + data[i].fat * call.remaining_macros.fat
    + data[i].carbs * call.remaining_macros.carbs

\* 0.4 * d/maxD + 0.6 * (1 - c/maxC) for the rows of D, maxD and maxC the maxima
\* over D, an axis whose maximum is 0 left as it is
ScoresInD ==
    LET d == [i \in D |-> DistanceToTarget(i)]
        c == [i \in D |-> GramsNeeded(i)]
        maxD == MaxOf({d[i] : i \in D})
        maxC == MaxOf({c[i] : i \in D})
        nd == [i \in D |-> IF maxD = 0 THEN d[i] ELSE (d[i] * Precision) \div maxD]
        nc == [i \in D |-> IF maxC = 0 THEN c[i] ELSE (c[i] * Precision) \div maxC]
    IN  [i \in D |-> 4 * nd[i] + 6 * (Precision - nc[i])]

\* C13: the rows returned stand in ascending combined score
\* 0.4*d/maxD + 0.6*(1 - c/maxC), maxD and maxC taken over the whole
\* density-filtered cluster set; a maximum of 0 leaves its axis un-normalised;
\* every score lies in [0, 1].
C13_ScoreAndOrder ==
    (GoalAligned /\ TotalRemaining > 0 /\ D # {}) =>
        LET expected == ScoresInD
        IN  /\ call.score = expected
            /\ \A i \in D : call.score[i] \in 0..(10 * Precision)
            /\ \A r, t \in 1..Len(call.final_indices) :
                   r < t => expected[call.final_indices[r]] <= expected[call.final_indices[t]]

\* rows of different scores are returned from the suitable subset, and both
\* maxima are reached only on rows the suitability filters rejected
C13_Witness ==
    /\ GoalAligned
    /\ TotalRemaining > 0
    /\ Cardinality(call.suitable_indices) >= call.n
    /\ \E r, t \in 1..Len(call.final_indices) :
           call.score[call.final_indices[r]] < call.score[call.final_indices[t]]
    /\ \E i \in D \ call.suitable_indices : \A j \in call.suitable_indices :
           DistanceToTarget(j) < DistanceToTarget(i)
    /\ \E i \in D \ call.suitable_indices : \A j \in call.suitable_indices :
           GramsNeeded(j) < GramsNeeded(i)

\* every candidate stands on the target vector: the largest distance is 0
C13_ZeroDistanceReached ==
    /\ GoalAligned /\ TotalRemaining > 0 /\ D # {}
    /\ \A i \in D : DistanceToTarget(i) = 0

\* no candidate holds any of the macros still needed: the largest contribution is 0
C13_ZeroContributionReached ==
    /\ GoalAligned /\ TotalRemaining > 0 /\ D # {}
    /\ \A i \in D : GramsNeeded(i) = 0

(***************************************************************************)
(* The queries are pure reads.                                             *)
(***************************************************************************)
\* what the engine holds: table, feature matrix, cluster model, neighbour index
EngineState ==
    [data |-> data, X_features |-> X_features,
     kmeans_model |-> kmeans_model, nn_model |-> nn_model]

\* the engine holds what the constructor built from the data file
AsConstructed ==
    \E m \in DistinctCentres :
        LET built == RecommendationEngine(datafile, m)
        IN  EngineState = [data |-> built.data, X_features |-> built.X_features,
                           kmeans_model |-> built.kmeans_model,
                           nn_model |-> built.nn_model]

\* the call held is what that call yields on the engine as it stands
SameAsAlone ==
    CASE Similar ->
             \E tb \in TieBreaks : call = get_similar_foods(call.food_name, call.n, tb)
      [] GoalAligned ->
             \E tb \in TieBreaks :
                 call = get_goal_aligned_foods(call.remaining_macros, call.user_goals,
                                               call.n, tb)
      [] OTHER -> TRUE

Built == engine = "RecommendationEngine"

\* the ratio is a defined, finite number in [0, 1]
ProperRatio(pct) == pct[2] > 0 /\ 0 <= pct[1] /\ pct[1] <= pct[2]

\* p + f + c = 1, for fractions <<num, den>>
SumToOne(p, f, c) ==
    p[1] * f[2] * c[2] + f[1] * p[2] * c[2] + c[1] * p[2] * f[2] = p[2] * f[2] * c[2]

\* C15: in every row of the loaded table protein_pct, fat_pct and carbs_pct lie
\* in [0, 1] and sum to 1, or are all exactly 0 when protein + fat + carbs is 0;
\* no ratio is undefined or infinite.
C15_RatiosSumToOne ==
    Built =>
        \A i \in 1..Len(data) :
            LET r == data[i]
            IN  /\ ProperRatio(r.protein_pct)
                /\ ProperRatio(r.fat_pct)
                /\ ProperRatio(r.carbs_pct)
                /\ IF TotalMacros(r) = 0
                   THEN r.protein_pct[1] = 0 /\ r.fat_pct[1] = 0 /\ r.carbs_pct[1] = 0
                   ELSE SumToOne(r.protein_pct, r.fat_pct, r.carbs_pct)

\* the table holds a row without any macros and a row with all three
C15_Witness ==
    /\ Built
    /\ \E i \in 1..Len(data) : TotalMacros(data[i]) = 0
    /\ \E i \in 1..Len(data) :
           data[i].protein > 0 /\ data[i].fat > 0 /\ data[i].carbs > 0

\* the source row has a number in each of the four macro cells
Complete(r) == \A col \in {"kcal", "protein", "fat", "carbs"} : r[col].kind = "number"

\* name, category and the four numbers of a complete source row
ValuesOf(r) ==
    [Name |-> r.Name, Category |-> r.Category, kcal |-> r.kcal.val,
     protein |-> r.protein.val, fat |-> r.fat.val, carbs |-> r.carbs.val]

CompleteRows == SelectSeq(datafile.rows, Complete)

\* the names carried only by source rows that are not complete
DroppedNames ==
    {datafile.rows[i].Name : i \in {j \in 1..Len(datafile.rows) : ~ Complete(datafile.rows[j])}}
        \ {CompleteRows[i].Name : i \in 1..Len(CompleteRows)}

\* C16: a source row with a missing or non-numeric energy, protein, fat or
\* carbohydrate value does not fail the load, and stands neither in the engine's
\* table nor in a query result; the table is the other source rows, in their
\* order in the file.
C16_IncompleteRowsDropped ==
    /\ (HeaderFound(datafile) /\ Len(CompleteRows) >= n_clusters) => Built
    /\ Built =>
          /\ [i \in 1..Len(data) |-> output_columns(data[i])]
                 = [i \in 1..Len(CompleteRows) |-> ValuesOf(CompleteRows[i])]
          /\ call # NoCall =>
                 \A r \in 1..Len(call.result) :
                     /\ call.result[r].Name \notin DroppedNames
                     /\ \E i \in 1..Len(CompleteRows) :
                            call.result[r] = ValuesOf(CompleteRows[i])

\* the file has a row with a missing value and a row with a non-numeric one, each
\* between rows that are kept, and a query returned every other row but one
C16_Witness ==
    /\ Built
    /\ \E i, j, k \in 1..Len(datafile.rows) :
           /\ i < j /\ j < k
           /\ Complete(datafile.rows[i]) /\ Complete(datafile.rows[k])
           /\ \E col \in {"kcal", "protein", "fat", "carbs"} :
                  datafile.rows[j][col].kind = "nan"
    /\ \E j \in 1..Len(datafile.rows) :
           \E col \in {"kcal", "protein", "fat", "carbs"} : datafile.rows[j][col].kind = "text"
    /\ Similar
    /\ Len(call.result) = Len(CompleteRows) - 1
    /\ Len(datafile.rows) > Len(data)

(***************************************************************************)
(* Failures of the loader and of construction.                             *)
(***************************************************************************)
\* the header rows probed
ProbedRows == {header_rows_tried[k] : k \in 1..Len(header_rows_tried)}

\* the column names seen at the probed header rows
ColumnsSeen == UNION {read_excel(datafile, h).columns : h \in ProbedRows}

\* the file is there and parses, and some required column is at no probed row
ColumnAbsent ==
    /\ datafile.exists
    /\ datafile.parses
    /\ \A h \in ProbedRows : ~ (required_columns \subseteq read_excel(datafile, h).columns)

\* the error raised for an absent column
IsSchemaError(e) == e.type = "ValueError" /\ e.message = "Missing required columns"

\* C17: when a required column is absent at every probed header row, the load
\* fails with a schema error that names the required columns that are absent,
\* and there is no table.
C17_SchemaErrorNamesMissing ==
    ColumnAbsent =>
        /\ engine = "None"
        /\ data = <<>>
        /\ IsSchemaError(error)
        /\ error.columns = required_columns \ ColumnsSeen

\* C18: the load fails with a data-file error, which is not the schema error,
\* when no file is at the path and when the file does not parse.
C18_DataFileErrorDistinct ==
    (~ datafile.exists \/ ~ datafile.parses) =>
        /\ engine = "None"
        /\ error # NoError
        /\ ~ IsSchemaError(error)

\* C19: construction either completes, with table, cluster column, feature
\* matrix, cluster model and neighbour index all built, or fails and leaves no
\* engine; no query is served without a completed engine.
C19_BuiltOrNone ==
    IF engine = "RecommendationEngine"
    THEN /\ error = NoError
         /\ Len(data) > 0
         /\ \A i \in 1..Len(data) : "cluster" \in DOMAIN data[i]
         /\ Len(X_features) = Len(data)
         /\ DOMAIN kmeans_model = ClusterIds
         /\ Len(nn_model) = Len(data)
    ELSE /\ engine = "None"
         /\ error # NoError
         /\ data = <<>> /\ X_features = <<>> /\ kmeans_model = <<>> /\ nn_model = <<>>
         /\ call = NoCall

\* the table was loaded, with a row dropped, and the cluster fit then failed:
\* there is no engine
C19_Witness ==
    /\ engine = "None"
    /\ error = TooFewSamplesError
    /\ HeaderFound(datafile)
    /\ Len(CompleteRows) > 0
    /\ Len(CompleteRows) < Len(datafile.rows)
    /\ call = NoCall

\* an engine was built and served a query
C19_ServedReached == Built /\ call # NoCall /\ Len(call.result) > 0

\* the cluster ids rows of the table carry
ClustersUsed == {data[i].cluster : i \in 1..Len(data)}

\* C20: after successful construction every row has an integer cluster id in
\* [0, 8), the cluster model has exactly 8 centres, and the id of row i is the
\* one the model assigns to feature row i: that of its nearest centre.
C20_ClusterColumn ==
    Built =>
        /\ Cardinality(DOMAIN kmeans_model) = 8
        /\ \A i \in 1..Len(data) :
               LET k == data[i].cluster
               IN  /\ k \in Int
                   /\ 0 <= k /\ k < 8
                   /\ k \in DOMAIN kmeans_model
                   /\ \A j \in DOMAIN kmeans_model :
                          CmpDist(X_features[i], kmeans_model[k], kmeans_model[j]) <= 0
                   /\ \A j \in DOMAIN kmeans_model :
                          j < k => CmpDist(X_features[i], kmeans_model[j], kmeans_model[k]) > 0

\* the rows are spread over several clusters, the last id among them, and two
\* rows share a cluster
C20_Witness ==
    /\ Built
    /\ Cardinality(ClustersUsed) >= 3
    /\ 7 \in ClustersUsed
    /\ \E i, j \in 1..Len(data) : i # j /\ data[i].cluster = data[j].cluster

(***************************************************************************)
(* Alignment of table and feature matrix.                                  *)
(***************************************************************************)
\* the feature vector of table row i, from its grams
RowVector(i) ==
    IF TotalMacros(data[i]) = 0 THEN <<0, 0, 0, 1>>
    ELSE Normalize(<<data[i].protein, data[i].fat, data[i].carbs, TotalMacros(data[i])>>)

Positions == 1..Len(data)

\* the source file lost a row that stood before a row it kept
GapInLabels ==
    \E i, j \in 1..Len(datafile.rows) :
        i < j /\ ~ Complete(datafile.rows[i]) /\ Complete(datafile.rows[j])

\* C21: the feature matrix has one row per table row, feature row i being the
\* vector of table row i, and every index the two queries read it with (the
\* resolved row, the neighbours, the filtered cluster rows) is the position of
\* the table row meant, also when dropped rows left gaps in the loader's labels.
C21_PositionsAligned ==
    Built =>
        /\ Len(X_features) = Len(data)
        /\ \A i \in Positions : X_features[i] = RowVector(i)
        /\ Resolved =>
               /\ call.food_pos_idx \in Positions
               /\ call.food_pos_idx \in food_mask(call.food_name)
               /\ \A r \in 1..Len(call.neighbor_indices) :
                      call.neighbor_indices[r] \in Positions
               /\ \A i \in Positions :
                      InWindow(i) \/
                          \A r \in 1..Len(call.neighbor_indices) :
                              CmpDist(RowVector(call.food_pos_idx),
                                      RowVector(call.neighbor_indices[r]), RowVector(i)) <= 0
        /\ (GoalAligned /\ TotalRemaining > 0) =>
               /\ call.cluster_foods \subseteq Positions
               /\ \A i \in call.cluster_foods :
                      /\ data[i].cluster = call.predicted_cluster
                      /\ \A j \in call.cluster_foods :
                             (GramsNeeded(i) = GramsNeeded(j)
                                 /\ Norm(RowVector(i), TargetRatios)
                                        < Norm(RowVector(j), TargetRatios))
                                 => call.score[i] < call.score[j]

\* the file lost rows between kept ones, and a query resolved a row that stands
\* after the gap and read its neighbours
C21_Witness ==
    /\ Built
    /\ GapInLabels
    /\ Resolved
    /\ call.food_pos_idx = Len(data)
    /\ Len(data) < Len(datafile.rows)
    /\ Len(call.result) > 1

(***************************************************************************)
(* The feature definition at training time and at query time.              *)
(***************************************************************************)
\* C22: the columns the engine passes to transform, for the table at construction
\* and for the target of get_goal_aligned_foods, are exactly the columns the
\* scaler was fitted on.
C22_SameFeatureDefinition ==
    Built =>
        /\ feature_columns = fit_columns
        /\ GoalAligned => target_columns = fit_columns

Searched == api # Idle /\ api.op = "search_food"

\* C24: search_food raises nothing, and returns the empty list when the request
\* fails or times out, when the status is not 200, when the body is not JSON
\* and when the service returns an empty list.
C24_SearchNeverRaises ==
    Searched =>
        /\ api.outcome.raised = "none"
        /\ ( \/ api.answer.failure # "none"
             \/ api.answer.status_code # 200
             \/ api.answer.body.kind = "invalid"
             \/ (api.answer.body.kind = "list" /\ api.answer.body.items = <<>>) )
           => api.outcome.value = <<>>

C24_Witness ==
    /\ Searched
    /\ api.answer.failure = "none"
    /\ api.answer.status_code = 200
    /\ api.answer.body.kind = "invalid"
    /\ api.outcome = Returns(<<>>)

C24_TimeoutReached == Searched /\ api.answer.failure = "Timeout" /\ api.outcome = Returns(<<>>)

C24_NameNotTextReached ==
    /\ Searched
    /\ search_food_try(api.answer, api.use_fuzzy, api.FUZZY_AVAILABLE, api.score).raised
          = "AttributeError"
    /\ api.outcome = Returns(<<>>)

\* an item carries a name (an identifier) when the key is there, at the top or
\* in the object under 'food'
NamesCarried(item) ==
    IF ~item.is_dict THEN {}
    ELSE ({item.foodName, item.name}
          \cup (IF item.food.is_dict THEN {item.food.foodName, item.food.name} ELSE {}))
         \ {Absent}

IdsCarried(item) ==
    IF ~item.is_dict THEN {}
    ELSE ({item.id, item.dbid}
          \cup (IF item.food.is_dict THEN {item.food.id, item.food.dbid} ELSE {}))
         \ {Absent}

CarriesBoth(item) == NamesCarried(item) # {} /\ IdsCarried(item) # {}

Carrying == SelectSeq(api.answer.body.items, CarriesBoth)

ListAnswered ==
    /\ Searched
    /\ api.answer.failure = "none"
    /\ api.answer.status_code = 200
    /\ api.answer.body.kind = "list"

\* one entry for each item that carries both, in the order of the response
InResponseOrder(value) ==
    /\ Len(value) = Len(Carrying)
    /\ \A k \in 1..Len(value) :
          /\ value[k].name \in NamesCarried(Carrying[k])
          /\ value[k].dbid \in IdsCarried(Carrying[k])

\* C25: for a 200 response that holds a list, search_food returns one
\* {name, dbid} entry for each item that carries a name and an identifier, flat
\* or under 'food', in the order of the response, and leaves out the items that
\* lack either.
C25_OnePerItemInResponseOrder == ListAnswered => InResponseOrder(api.outcome.value)

RankingApplies == api.use_fuzzy /\ api.FUZZY_AVAILABLE

\* value holds the entries of some arrangement in response order, moved so that
\* scores fall and equal scores keep their order
RankedArrangement(value) ==
    LET n == Len(Carrying)
    IN  /\ Len(value) = n
        /\ \E f \in [1..n -> 1..n] :
              /\ \A k, l \in 1..n : k # l => f[k] # f[l]
              /\ \A k \in 1..n :
                    /\ value[k].name \in NamesCarried(Carrying[f[k]])
                    /\ value[k].dbid \in IdsCarried(Carrying[f[k]])
              /\ \A k, l \in 1..n :
                    k < l => \/ api.score[value[k].name.s] > api.score[value[l].name.s]
                             \/ /\ api.score[value[k].name.s] = api.score[value[l].name.s]
                                /\ f[k] < f[l]

NameNotText == \E k \in 1..Len(Carrying) : \A nm \in NamesCarried(Carrying[k]) : nm.t # "str"

\* C25 (amended): for a 200 response that holds a list, search_food returns one
\* {name, dbid} entry for each item that carries a name and an identifier, and
\* leaves out the others; the entries are in the order of the response unless
\* fuzzy ranking is asked for and available.  With ranking, the entries are
\* ordered by falling match score, equal scores in response order, and the
\* result is empty when an entry's name is not a text.
C25_OnePerItemRankedWhenFuzzy ==
    ListAnswered =>
        IF ~RankingApplies THEN InResponseOrder(api.outcome.value)
        ELSE IF NameNotText THEN api.outcome.value = <<>>
        ELSE RankedArrangement(api.outcome.value)

\* ranking moved the second entry of the response in front of the first
C25_Witness ==
    /\ ListAnswered
    /\ RankingApplies
    /\ Len(Carrying) = 2
    /\ Len(api.answer.body.items) = 2
    /\ Len(api.outcome.value) = 2
    /\ api.outcome.value[1].dbid \in IdsCarried(Carrying[2])
    /\ api.outcome.value[1].dbid \notin IdsCarried(Carrying[1])

C25_UnrankedReached ==
    /\ ListAnswered
    /\ ~RankingApplies
    /\ Len(api.answer.body.items) = 2
    /\ Len(api.outcome.value) = 1
    /\ api.answer.body.items[2].food.is_dict

LookedUp == api # Idle /\ api.op = "get_food_details"

AllTitled ==
    /\ api.answer.failure = "none"
    /\ api.answer.status_code = 200
    /\ api.answer.body.kind = "dict"
    /\ api.answer.body.layout \in {"food", "flat"}
    /\ \A key \in result_keys : api.answer.body.titled[key] # Absent

\* C26: for a 200 response that carries the four macro values under the column
\* titles, in a 'food' object or at the top level, get_food_details returns
\* {kcal, protein, fat, carbs} with exactly those values.
C26_TitledMacrosReturned ==
    (LookedUp /\ AllTitled) =>
        /\ ~api.outcome.value.is_none
        /\ DOMAIN api.outcome.value.dict = result_keys
        /\ \A key \in result_keys :
              api.outcome.value.dict[key] = api.answer.body.titled[key].n

\* the items of the 'values' array that give the macro named key a value
ItemsFor(key) ==
    IF api.answer.body.kind = "dict" /\ api.answer.body.layout = "values"
       /\ api.answer.body.values_is_list
    THEN {i \in 1..Len(api.answer.body.values) :
            LET item == api.answer.body.values[i]
            IN  /\ item.has_name
                /\ item.name \in DOMAIN required_components
                /\ required_components[item.name] = key
                /\ item.value # Absent}
    ELSE {}

IsNumeral(chars) == chars # <<>> /\ \A i \in 1..Len(chars) : chars[i] \in DigitChars

NotNumeric(value) == value.t = "null" \/ (value.t = "str" /\ ~IsNumeral(value.s))

SomeValueNotNumeric ==
    \E key \in result_keys : \E i \in ItemsFor(key) : NotNumeric(api.answer.body.values[i].value)

\* a macro is absent when no item of 'values' gives it and no column title
\* carries it
SomeMacroAbsent ==
    \E key \in result_keys : ItemsFor(key) = {} /\ api.answer.body.titled[key] = Absent

\* C27: get_food_details raises nothing and returns no partial record: it
\* returns None when the request fails, when the status is not 200, when the
\* body is not JSON, when a macro value is not numeric and when one of the four
\* macros is absent; a result other than None has exactly the keys kcal,
\* protein, fat and carbs.
C27_NoneOrWholeRecord ==
    LookedUp =>
        /\ api.outcome.raised = "none"
        /\ ( \/ api.answer.failure # "none"
             \/ api.answer.status_code # 200
             \/ api.answer.body.kind = "invalid"
             \/ SomeValueNotNumeric
             \/ SomeMacroAbsent )
           => api.outcome.value.is_none
        /\ ~api.outcome.value.is_none => DOMAIN api.outcome.value.dict = result_keys

\* three macros are given, the fourth is not: None
C27_Witness ==
    /\ LookedUp
    /\ api.answer.status_code = 200
    /\ Cardinality({key \in result_keys : ItemsFor(key) # {}}) = 3
    /\ ~SomeValueNotNumeric
    /\ api.outcome = Returns(NoDetails)

C27_NotNumericReached ==
    /\ LookedUp
    /\ \A key \in result_keys : ItemsFor(key) # {}
    /\ SomeValueNotNumeric
    /\ api.outcome = Returns(NoDetails)

C27_RecordReached ==
    /\ LookedUp
    /\ ~api.outcome.value.is_none
    /\ api.outcome.value.dict["fat"] = 12
    /\ api.outcome.value.dict["kcal"] = 165

(***************************************************************************)
(* The window of get_similar_foods.                                        *)
(***************************************************************************)
\* the rows strictly nearer to the query vector than row i
NearerThan(i) ==
    {j \in 1..Len(data) :
        CmpDist(X_features[call.food_pos_idx], X_features[j], X_features[i]) < 0}

WindowSize == Min(3 * call.n + 1, Len(data))

SameCategoryInWindow ==
    {i \in 1..Len(data) : InWindow(i) /\ i # call.food_pos_idx /\ SameCategory(i)}

\* C28: every row get_similar_foods(name, n) returns is among the min(3n+1, N)
\* rows nearest to the query vector, so a row of the query's category outside
\* that window is not returned; a row of another category is returned only
\* when the window holds fewer than n other rows of the query's category.
C28_ReturnedFromWindow ==
    (Resolved /\ call.outcome = "returned") =>
        /\ Len(call.neighbor_indices) = WindowSize
        /\ \A i \in 1..Len(data) :
              /\ InWindow(i) => Cardinality(NearerThan(i)) < WindowSize
              /\ Returned(i) => InWindow(i)
              /\ (Returned(i) /\ ~SameCategory(i)) => Cardinality(SameCategoryInWindow) < call.n

\* a row of the query's category lies outside the window and a row of another
\* category is returned in its place
C28_Witness ==
    /\ Resolved
    /\ call.outcome = "returned"
    /\ WindowSize < Len(data)
    /\ \E i \in 1..Len(data) :
          /\ SameCategory(i) /\ i # call.food_pos_idx
          /\ ~InWindow(i) /\ Cardinality(NearerThan(i)) >= WindowSize
    /\ \E j \in 1..Len(data) : Returned(j) /\ ~SameCategory(j)

(***************************************************************************)
(* The search for the header line (under FairLoaderSpec).                  *)
(***************************************************************************)
ProbeOrder == <<2, 1, 0, 3>>

\* line h of the file can be read as a header and carries the six titles
CarriesAll(h) ==
    /\ datafile.parses
    /\ h < Len(datafile.lines)
    /\ \A title \in {"Name", "Category", "Energy, kilocalories (kcal)", "Protein (g)",
                     "Fat, total (g)", "Carbohydrates, available (g)"} :
          title \in datafile.lines[h + 1]

SomeLineCarriesAll == \E i \in 1..Len(ProbeOrder) : CarriesAll(ProbeOrder[i])

FirstInOrder ==
    loader # Idle =>
        /\ Len(loader.tried) <= Len(ProbeOrder)
        /\ \A i \in 1..Len(loader.tried) :
              /\ loader.tried[i] = ProbeOrder[i]
              /\ i < Len(loader.tried) => ~ CarriesAll(loader.tried[i])
        /\ loader.header_row # -1 =>
              /\ loader.tried # <<>>
              /\ loader.header_row = loader.tried[Len(loader.tried)]
              /\ CarriesAll(loader.header_row)
        /\ loader.pc = "loaded" => loader.header_row # -1
        /\ (loader.pc = "raised" /\ datafile.exists) =>
              /\ loader.tried = ProbeOrder
              /\ ~ SomeLineCarriesAll

\* C29: the loader tries the header lines 2, 1, 0, 3 in this order and takes the
\* first at which the six required titles are all there; a line whose read
\* raises is passed over; so the load gets its frame whenever one of the four
\* lines carries the six titles, and fails only when none does.
C29_ProbesInOrder ==
    /\ []FirstInOrder
    /\ (datafile.exists /\ SomeLineCarriesAll) ~> (loader.pc = "loaded")

\* the read at line 2 raised, line 1 carried no titles, line 0 was taken
C29_Witness ==
    /\ loader # Idle
    /\ loader.pc = "loaded"
    /\ Len(datafile.lines) = 2
    /\ loader.tried = <<2, 1, 0>>
    /\ loader.header_row = 0

\* two lines carry the titles: the one tried first is taken
C29_TwoHeadersReached ==
    /\ loader # Idle
    /\ loader.pc = "loaded"
    /\ CarriesAll(0) /\ CarriesAll(2)
    /\ loader.header_row = 2

C29_NoneReached ==
    /\ loader # Idle
    /\ loader.pc = "raised"
    /\ datafile.parses
    /\ Len(datafile.lines) = 3
    /\ loader.error = LoadError(datafile)
    /\ loader.error.type = "ValueError"

(***************************************************************************)
(* The list of logged meals (under DashSpec).                              *)
(***************************************************************************)
MealsKept ==
    /\ Len(session'.logged_meals) >= Len(session.logged_meals)
    /\ SubSeq(session'.logged_meals, 1, Len(session.logged_meals)) = session.logged_meals

LogStep == session.pc = "log" /\ session.submitted_log

OneMealMore ==
    /\ Len(session'.logged_meals) = Len(session.logged_meals) + 1
    /\ \E portion_size \in {50, 100} :
          session'.logged_meals[Len(session'.logged_meals)]
             = [portion_g |-> portion_size,
                kcal |-> (portion_size * 165) \div 100,
                protein |-> (portion_size * 31) \div 100,
                carbs |-> 0,
                fat |-> (portion_size * 12) \div 100]

MealsStep ==
    /\ MealsKept
    /\ session'.logged_meals # session.logged_meals =>
          /\ session.has_logged_meals
          /\ LogStep
          /\ session'.lookup = "ok"
          /\ OneMealMore
    /\ (LogStep /\ session'.lookup = "failed") =>
          session'.logged_meals = session.logged_meals
    /\ (LogStep /\ session'.lookup = "ok" /\ session'.caught = "none") => OneMealMore

\* C30: in every sequence of script runs of a session, no meal is in the list
\* before the list is initialised, although the append stands above the
\* initialisation in the script; a log whose lookup succeeds appends exactly
\* one entry, a log whose lookup fails appends none, and the entries already
\* in the list are never removed or changed.
C30_MealsOnlyAppended ==
    /\ [](session # Idle => (session.logged_meals # <<>> => session.has_logged_meals))
    /\ [][MealsStep]_vars

\* two different meals were logged in two runs
C30_Witness ==
    /\ session # Idle
    /\ Len(session.logged_meals) = 2
    /\ session.logged_meals[1] # session.logged_meals[2]
    /\ session.pc = "rerun"

C30_FailedLookupReached ==
    /\ session # Idle
    /\ Len(session.logged_meals) = 1
    /\ session.lookup = "failed"

\* a form submitted in a run that follows only interrupted runs: the append
\* raises and nothing is logged
C30_AppendBeforeInitReached ==
    /\ session # Idle
    /\ ~ session.has_logged_meals
    /\ session.caught = "AttributeError"
    /\ session.logged_meals = <<>>

====
